---- MODULE Spec2Model ----
(***************************************************************************)
(* Slop Detective: the background analysis orchestrator (staged            *)
(* provisional -> final delivery, analysis cache, bounded file-fetch       *)
(* worker pool), the score combinator it calls, and the content script     *)
(* that asks for an analysis and renders the results on the page.          *)
(*                                                                         *)
(* Numbers.  Signals are reals in [0,1] in the source; here a signal is an *)
(* integer count of 1/10000 (SignalOne = 1.0).  Score points are counted   *)
(* in hundredths (a contribution of 10.15 points is 1015).  Evidence       *)
(* strength is counted in 1/600000 so that k/6, avg*1.1 and max*0.45 are   *)
(* all integers.  Math.round(x) is floor(x + 1/2).                         *)
(***************************************************************************)
EXTENDS Integers, Sequences, FiniteSets, TLC

\* ------------------------------------------------------------------ bounds
MaxRuns == 3
MaxTicks == 1
MaxFiles == 5
MinFiles == 2
MaxHung == 1
MaxNavs == 1
MaxCount == 3
MaxNodes == 3
MaxDirs == 3
MaxSamples == 3
MaxTree == 6
MaxPurges == 1

\* ------------------------------------------------------- program constants
CACHE_TTL_MS == 3600000
MAX_SAMPLED_FILES == 28
FILE_FETCH_CONCURRENCY == 4

SignalOne == 10000
EvidenceOne == 600000

\* ------------------------------------------------------------------- the state
VARIABLES
    limits,     \* bounds of the behaviour: run slots, files per tree, requesters, statuses
    now,        \* Date.now()
    ticks,      \* how often the clock has advanced
    cache,      \* chrome.storage.local: the analysis-cache entries and the settings entry
    runs,       \* one record per ANALYZE_REPO request handled by the worker
    page,       \* the content script of the tab: location, tracked repository, badge
    popup,      \* the popup window: the record it shows, a cache purge under way
    calc        \* calls of the score combinator made apart from any run

vars == <<limits, now, ticks, cache, runs, page, popup, calc>>

\* --------------------------------------------------------- numeric helpers
Min2(a, b) == IF a < b THEN a ELSE b
Max2(a, b) == IF a > b THEN a ELSE b

\* Math.round on a rational num/den (den > 0): floor(num/den + 1/2)
RoundDiv(num, den) == (2 * num + den) \div (2 * den)

\* (variant: no upper bound)
clampBelowOnly(value, min, max) == IF value < min THEN min ELSE value

clamp(value, min, max) == IF value < min THEN min ELSE IF value > max THEN max ELSE value

RECURSIVE SumSeq(_)
SumSeq(s) == IF s = <<>> THEN 0 ELSE Head(s) + SumSeq(Tail(s))

RECURSIVE MaxSeq(_)
MaxSeq(s) == IF Len(s) = 1 THEN s[1] ELSE Max2(Head(s), MaxSeq(Tail(s)))

\* index of the first occurrence of the largest element
MaxIdx(s) == CHOOSE i \in 1..Len(s) : s[i] = MaxSeq(s) /\ \A j \in 1..(i - 1) : s[j] # s[i]

RemoveAt(s, i) == SubSeq(s, 1, i - 1) \o SubSeq(s, i + 1, Len(s))

\* values.slice().sort((a, b) => b - a)
RECURSIVE SortDesc(_)
SortDesc(s) == IF s = <<>> THEN <<>> ELSE <<MaxSeq(s)>> \o SortDesc(RemoveAt(s, MaxIdx(s)))

CountIf(s, Test(_)) == Cardinality({i \in 1..Len(s) : Test(s[i])})

\* signalCount: how many values are >= 0.2
signalCount(values) == CountIf(values, LAMBDA v : v >= 2000)

\* ---------------------------------------------------------- score combinator
Features == <<"configSignal", "commitLanguageSignal", "commitBurstSignal",
              "commentPatternSignal", "repetitionSignal", "structureUniformitySignal">>

\* weights in hundredths
weights == [configSignal |-> 16, commitLanguageSignal |-> 29, commitBurstSignal |-> 12,
            commentPatternSignal |-> 18, repetitionSignal |-> 15, structureUniformitySignal |-> 10]

\* contribution in hundredths of a point: round(normalized * weight * 100) to 2 decimals
buildContribution(feature, raw) ==
    LET normalized == clamp(raw, 0, SignalOne)
    IN [feature |-> feature,
        normalized |-> normalized,
        weight |-> weights[feature],
        contribution |-> RoundDiv(normalized * weights[feature], 100)]

\* Math.round of the summed contributions of the named features, in whole points
sumContributions(contributions, featureNames) ==
    RoundDiv(SumSeq([i \in 1..Len(contributions) |->
                        IF contributions[i].feature \in featureNames
                        THEN contributions[i].contribution ELSE 0]), 100)

\* (variant: the score plays no part)
scoreConfidenceByStrength(score, evidenceStrength) ==
    IF evidenceStrength < 132000 THEN "low"
    ELSE IF evidenceStrength < 420000 THEN "medium"
    ELSE "high"

\* score in hundredths of a point, evidenceStrength in 1/600000
scoreConfidence(score, evidenceStrength) ==
    IF evidenceStrength < 132000 \/ score < 1200 THEN "low"
    ELSE IF evidenceStrength < 420000 \/ score < 4500 THEN "medium"
    ELSE "high"

deriveEvidenceStrength(evidenceSignals, signalValues) ==
    LET countStrength == clamp(evidenceSignals * 100000, 0, EvidenceOne)
    IN IF signalValues = <<>> THEN countStrength
       ELSE LET sorted == SortDesc(signalValues)
                top == SubSeq(sorted, 1, Min2(3, Len(sorted)))
                avgTop11 == (SumSeq(top) * 66) \div Len(top)
                maxSignal45 == sorted[1] * 27
            IN clamp(Max2(countStrength, Max2(avgTop11, maxSignal45)), 0, EvidenceOne)

\* (variant: a rule whose condition holds assigns its floor)
RECURSIVE raiseToAssigning(_, _)
raiseToAssigning(score, floors) ==
    IF floors = <<>> THEN score
    ELSE raiseToAssigning(IF Head(floors).when THEN Head(floors).floor ELSE score, Tail(floors))

\* the chain of  if (condition) adjustedScore = Math.max(adjustedScore, floor)
RECURSIVE raiseTo(_, _)
raiseTo(score, floors) ==
    IF floors = <<>> THEN score
    ELSE raiseTo(IF Head(floors).when THEN Max2(score, Head(floors).floor) ELSE score, Tail(floors))

\* the conditions and floors of the rules that follow the boost, in the order of the code
floorRules(f, rawScore, evidenceStrength) ==
    LET mediumHigh == f.mediumHighIndicatorCount
        indicatorCount == f.indicatorCount
    IN << [when |-> rawScore < 3500 /\ f.commentPatternSignal >= 2000 /\ f.commitBurstSignal >= 3500,
           floor |-> 3000],
          [when |-> f.commitLanguageSignal >= 5000 /\ f.commitBurstSignal >= 3500 /\ rawScore < 4500,
           floor |-> 4200],
          [when |-> f.commitBurstSignal >= 4500 /\ f.commentPatternSignal >= 1400 /\ mediumHigh >= 3,
           floor |-> 6200],
          [when |-> f.commitLanguageSignal >= 3500 /\ mediumHigh >= 2 /\ indicatorCount >= 4,
           floor |-> 5600],
          [when |-> f.commitLanguageSignal >= 5000 /\ f.commitBurstSignal >= 3500 /\ mediumHigh >= 3,
           floor |-> 6200],
          [when |-> mediumHigh >= 4 /\ evidenceStrength >= 270000, floor |-> 6800],
          [when |-> mediumHigh >= 5 /\ evidenceStrength >= 300000, floor |-> 7500] >>

\* (variant: no dampener)
capNever(score, evidenceStrength) == score

\* if (evidenceStrength < 0.2) adjustedScore = Math.min(adjustedScore, 40)
capWeakEvidence(score, evidenceStrength) == IF evidenceStrength < 120000 THEN Min2(score, 4000) ELSE score

\* (variant: the score of a call grows with the calls made before it)
calculateSlopScoreCounting(f) ==
    [overall |-> clamp(calc.calls, 0, 100),
     breakdown |-> [configs |-> 0, commits |-> 0, patterns |-> 0, structure |-> 0, repetition |-> 0],
     confidence |-> "low",
     evidenceStrength |-> 0,
     contributions |-> [i \in 1..6 |-> buildContribution(Features[i], f[Features[i]])]]

calculateSlopScore(f) ==
    LET contributions == [i \in 1..6 |-> buildContribution(Features[i], f[Features[i]])]
        rawScore == SumSeq([i \in 1..6 |-> contributions[i].contribution])
        evidenceStrength == deriveEvidenceStrength(f.evidenceSignals, f.signalValues)
        confidence == scoreConfidence(rawScore, evidenceStrength)
        strongSignals == CountIf(f.signalValues, LAMBDA v : v >= 2500)
        boosted == IF rawScore < 2500 /\ strongSignals >= 2 THEN rawScore + 1200 ELSE rawScore
        escalated == raiseTo(boosted, floorRules(f, rawScore, evidenceStrength))
        adjustedScore == capWeakEvidence(escalated, evidenceStrength)
    IN [overall |-> clamp(RoundDiv(adjustedScore, 100), 0, 100),
        breakdown |-> [configs |-> sumContributions(contributions, {"configSignal"}),
                       commits |-> sumContributions(contributions, {"commitLanguageSignal", "commitBurstSignal"}),
                       patterns |-> sumContributions(contributions, {"commentPatternSignal"}),
                       structure |-> sumContributions(contributions, {"structureUniformitySignal"}),
                       repetition |-> sumContributions(contributions, {"repetitionSignal"})],
        confidence |-> confidence,
        evidenceStrength |-> RoundDiv(evidenceStrength, 6000),
        contributions |-> contributions]

\* --------------------------------------------------------------- GitHub client
None == <<>>
Some(x) == <<x>>

\* HTTP statuses a non-ok response is drawn from
ErrorStatuses == {401, 403, 404, 500}

\* parseResponse: a non-ok response becomes a GitHubApiError carrying the status
parseResponse(status, failurePrefix) ==
    [kind |-> "GitHubApiError", status |-> status, message |-> <<failurePrefix, status>>]

\* a rejected fetch() or storage call: a plain Error without status
PlainError(what) == [kind |-> "Error", status |-> 0, message |-> <<what>>]

\* (variant: only 401 is taken as an authorisation failure)
mapErrorForgets404(error) ==
    IF error.kind = "GitHubApiError"
    THEN IF error.status = 403
         THEN <<"RATE_LIMIT", "GitHub API rate limit reached. Add token in settings.">>
         ELSE IF error.status = 401
              THEN <<"AUTH_REQUIRED", "Repository may be private or requires a token.">>
              ELSE <<"API_ERROR", error.message>>
    ELSE <<"NETWORK_ERROR", error.message>>

\* mapError: the category and the message of the error string
mapError(error) ==
    IF error.kind = "GitHubApiError"
    THEN IF error.status = 403
         THEN <<"RATE_LIMIT", "GitHub API rate limit reached. Add token in settings.">>
         ELSE IF error.status = 401 \/ error.status = 404
              THEN <<"AUTH_REQUIRED", "Repository may be private or requires a token.">>
              ELSE <<"API_ERROR", error.message>>
    ELSE <<"NETWORK_ERROR", error.message>>

\* ------------------------------------------------------------ the environment
Repos == {"octo/alpha", "octo/beta"}
TabIds == {7}

\* one indicator; descriptions are sequences of strings (template literals)
Indicator(type, description, severity) ==
    [type |-> type, description |-> description, severity |-> severity]

\* Results of the commit analyzer (its source is not part of the sources at
\* hand): three scalars in [0,1] and a list of indicators, fixed by the history.
analyzeCommitMessages(commits) ==
    IF commits = <<>>
    THEN [aiSignal |-> 0, burstSignal |-> 0, bulkSignal |-> 0, indicators |-> <<>>]
    ELSE [aiSignal |-> 6000, burstSignal |-> 3000, bulkSignal |-> 5000,
          indicators |-> << Indicator("AI Commit Language", <<"templated messages">>, "high"),
                            Indicator("Commit Burst", <<"bulk commits">>, "medium"),
                            Indicator("AI Commit Language", <<"templated messages">>, "high") >>]

\* a name or path segment is <<stem, extension>>, or <<stem, extension, front>> when
\* there is text in front of the stem ("my.cursorrules" is <<".cursorrules", "", "my">>)
FileNode(path, type) == [name |-> path[Len(path)], path |-> path, type |-> type]

SourceFile(i) == FileNode(<< <<"src", "">>, <<ToString(i), "ts">> >>, "file")

\* flattened recursive tree: one directory, k source files, one image
TreeOf(k) ==
    << FileNode(<< <<"src", "">> >>, "dir") >>
    \o [i \in 1..k |-> SourceFile(i)]
    \o << FileNode(<< <<"logo", "png">> >>, "file") >>

\* the same tree with c instruction files for an assistant at its root (c <= 1)
TreeWithConfigs(k, c) == TreeOf(k) \o [i \in 1..c |-> FileNode(<< <<"CLAUDE", "md">> >>, "file")]

\* what GitHub may serve
\* abstract text of a fetched file: its token set after normalisation, and
\* what the comment and code-pattern detectors count in it
FileContent(file) ==
    [tokens |-> {"export", "function", "return", file.name[1]},
     commentLines |-> IF file.name[1] = "1" THEN 4 ELSE 0,
     patternMarks |-> IF file.name[1] = "2" THEN 5 ELSE 0]

\* ------------------------------------------------------------------- detectors
CodeExtensions == {"ts", "tsx", "js", "jsx", "py", "go", "rs", "java", "cs", "rb"}
AnalyzableExtensions == CodeExtensions \cup {"md", "txt", "yml", "yaml", "json", "toml", "ini"}

CONFIG_FILES ==
    { << <<".cursorrules", "">> >>, << <<".copilot-instructions", "">> >>, << <<"copilot", "yml">> >>,
      << <<".windsurfrules", "">> >>, << <<".ai-instructions", "">> >>, << <<"ai-instructions", "md">> >>,
      << <<".github", "">>, <<"copilot-instructions", "md">> >>,
      << <<".github", "">>, <<"instructions", "md">> >>,
      << <<"CLAUDE", "md">> >>, << <<".cursor", "">>, <<"rules", "">> >>,
      << <<".continue", "">>, <<"config", "json">> >> }

\* path.endsWith(suffix), both split at "/": the segments after the first of the suffix are
\* the same, and the segment that meets the first one ends with it
EndsWith(path, suffix) ==
    /\ Len(suffix) <= Len(path)
    /\ LET k == Len(path) - Len(suffix)
       IN /\ path[k + 1][1] = suffix[1][1] /\ path[k + 1][2] = suffix[1][2]
          /\ \A j \in 2..Len(suffix) : path[k + j] = suffix[j]

\* (variant: only the name of a node is compared)
detectConfigFilesByName(files) ==
    LET foundFiles == SelectSeq(files, LAMBDA f : \E c \in CONFIG_FILES : <<f.name>> = c)
    IN [found |-> Len(foundFiles) > 0,
        files |-> [i \in 1..Len(foundFiles) |-> foundFiles[i].path],
        severity |-> IF Len(foundFiles) > 1 THEN "high" ELSE IF Len(foundFiles) = 1 THEN "medium" ELSE "low"]

detectConfigFiles(files) ==
    LET foundFiles == SelectSeq(files, LAMBDA f : \E c \in CONFIG_FILES : <<f.name>> = c \/ EndsWith(f.path, c))
    IN [found |-> Len(foundFiles) > 0,
        files |-> [i \in 1..Len(foundFiles) |-> foundFiles[i].path],
        severity |-> IF Len(foundFiles) > 1 THEN "high" ELSE IF Len(foundFiles) = 1 THEN "medium" ELSE "low"]

ratio(numerator, denominator) == IF denominator <= 0 THEN 0 ELSE (numerator * SignalOne) \div denominator

\* value, min and max in one unit; the result is a signal
boundedScale(value, min, max) ==
    IF max <= min THEN 0 ELSE clamp(((value - min) * SignalOne) \div (max - min), 0, SignalOne)

\* (variant: the tokens in common are counted against the first set)
similarityOverFirst(a, b) ==
    LET intersection == Cardinality({token \in a : token \in b})
    IN IF a \cup b = {} THEN 0 ELSE (intersection * SignalOne) \div Max2(Cardinality(a), 1)

\* the tokens of a that b has, over the size of the union, as a signal
similarityCoefficient(a, b) ==
    LET union == a \cup b
        intersection == Cardinality({token \in a : token \in b})
    IN IF Cardinality(union) = 0 THEN 0 ELSE (intersection * SignalOne) \div Cardinality(union)

average(values) == IF values = <<>> THEN 0 ELSE SumSeq(values) \div Len(values)

\* directories grouped by parent; a shape is the set-with-multiplicity of leaf names
ParentOf(file) == SubSeq(file.path, 1, Len(file.path) - 1)

\* the number of "|" in a name; of the names that occur here only a|b.ts has one
BarsIn(name) == IF name[1] = "a|b" THEN 1 ELSE 0

\* line 32: a shape counts when it is met in 3 directories and splits at "|" in 2 parts
IsRepeated(count, splitLength) == count >= 3 /\ splitLength >= 2

detectBoilerplateStructure(files) ==
    LET fileIdx == {i \in 1..Len(files) : files[i].type = "file"}
        parents == {ParentOf(files[i]) : i \in fileIdx}
        \* leaf names of a directory as a bag: name -> count
        shapeOf(p) == [n \in {files[i].name : i \in {j \in fileIdx : ParentOf(files[j]) = p}} |->
                          Cardinality({j \in fileIdx : ParentOf(files[j]) = p /\ files[j].name = n})]
        \* shape.split('|').length: one part for a name and one more for each "|" in it
        splitLength(p) == LET leaves == {j \in fileIdx : ParentOf(files[j]) = p}
                              RECURSIVE Parts(_)
                              Parts(js) == IF js = {} THEN 0
                                           ELSE LET j == CHOOSE k \in js : TRUE
                                                IN 1 + BarsIn(files[j].name) + Parts(js \ {j})
                          IN Parts(leaves)
        shapes == {shapeOf(p) : p \in parents}
        countOf(sh) == Cardinality({p \in parents : shapeOf(p) = sh})
        sizeOf(sh) == splitLength(CHOOSE p \in parents : shapeOf(p) = sh)
        repeated == {sh \in shapes : IsRepeated(countOf(sh), sizeOf(sh))}
        repeatedShapes == Cardinality(repeated)
        directoriesWithRepeatedShape == Cardinality({p \in parents : shapeOf(p) \in repeated})
        repeatedRatio == ratio(directoriesWithRepeatedShape, Max2(Cardinality(parents), 1))
        uniformitySignal == boundedScale(((repeatedRatio * 12) \div 10) + boundedScale(repeatedShapes, 1, 6), 1500, 16000)
        repeatedNames == Cardinality({i \in fileIdx : \E j \in fileIdx : j # i /\ files[j].name = files[i].name})
        repeatedNameRatio == IF fileIdx = {} THEN 0 ELSE (repeatedNames * SignalOne) \div Cardinality(fileIdx)
    IN [uniformitySignal |-> Min2(uniformitySignal + ((repeatedNameRatio * 25) \div 100), SignalOne),
        repeatedShapes |-> repeatedShapes,
        indicators |->
            (IF repeatedShapes > 0
             THEN << Indicator("Uniform Module Scaffolds",
                               <<ToString(repeatedShapes), "repeating directory scaffold shapes detected">>,
                               IF repeatedShapes >= 3 THEN "high" ELSE "medium") >>
             ELSE <<>>)
            \o (IF repeatedNameRatio > 5500
                THEN << Indicator("Repeated File Templates",
                                  <<"High ratio of repeated filenames across directories">>,
                                  IF repeatedNameRatio > 7200 THEN "high" ELSE "medium") >>
                ELSE <<>>)]

\* (variant: only the pairs of neighbours are compared)
detectRepetitionAdjacent(samples) ==
    IF Len(samples) < 2
    THEN [repetitionSignal |-> 0, averageSimilarity |-> 0, indicators |-> <<>>]
    ELSE LET n == Len(samples)
             avgSimilarity == average([i \in 1..(n - 1) |->
                                  similarityCoefficient(samples[i].content.tokens, samples[i + 1].content.tokens)])
         IN [repetitionSignal |-> boundedScale(avgSimilarity, 1600, 5000),
             averageSimilarity |-> avgSimilarity,
             indicators |-> IF avgSimilarity >= 2400
                            THEN << Indicator("High Cross-file Similarity",
                                              <<"Average sampled similarity", ToString(RoundDiv(avgSimilarity, 100)), "%">>,
                                              IF avgSimilarity >= 3600 THEN "high" ELSE "medium") >>
                            ELSE <<>>]

\* samples: sequence of [path, content]
detectRepetition(samples) ==
    IF Len(samples) < 2
    THEN [repetitionSignal |-> 0, averageSimilarity |-> 0, indicators |-> <<>>]
    ELSE LET n == Len(samples)
             pairs == {<<i, j>> \in (1..n) \X (1..n) : i < j}
             RECURSIVE SumPairs(_)
             SumPairs(ps) == IF ps = {} THEN 0
                             ELSE LET p == CHOOSE q \in ps : TRUE
                                  IN similarityCoefficient(samples[p[1]].content.tokens, samples[p[2]].content.tokens)
                                     + SumPairs(ps \ {p})
             avgSimilarity == SumPairs(pairs) \div Cardinality(pairs)
         IN [repetitionSignal |-> boundedScale(avgSimilarity, 1600, 5000),
             averageSimilarity |-> avgSimilarity,
             indicators |-> IF avgSimilarity >= 2400
                            THEN << Indicator("High Cross-file Similarity",
                                              <<"Average sampled similarity", ToString(RoundDiv(avgSimilarity, 100)), "%">>,
                                              IF avgSimilarity >= 3600 THEN "high" ELSE "medium") >>
                            ELSE <<>>]

\* the comment detector and the code-pattern detector (sources not at hand):
\* counts and a signal in [0,1] derived from the file text
detectVerboseComments(content) ==
    [verboseBlocks |-> IF content.commentLines > 0 THEN 1 ELSE 0,
     matchedLines |-> content.commentLines,
     commentSignal |-> Min2(content.commentLines * 1500, SignalOne),
     indicators |-> <<>>]

detectCodePatterns(path, content) ==
    [signal |-> Min2(content.patternMarks * 1000, SignalOne), patternMatches |-> content.patternMarks]

\* ------------------------------------------------------------------- the runs
Runs == 1..MaxRuns

IdleRun ==
    [pc |-> "idle", repoId |-> "", tabId |-> None, requestCount |-> 0,
     repoInfo |-> None, commits |-> <<>>, cacheKey |-> None,
     provisional |-> None, files |-> <<>>, pool |-> None, phase |-> "none",
     final |-> None, failedAt |-> "none", thrown |-> None, response |-> None, pubs |-> <<>>, sinkLog |-> <<>>,
     inbox |-> <<>>, got |-> <<>>]

\* cache keys: <<repoId, defaultBranch, latestCommitSha>>
latestCommitSha(commits) == IF commits = <<>> THEN "no-commits" ELSE commits[1].sha

CacheKey(repoId, repoInfo, commits) == <<repoId, repoInfo.default_branch, latestCommitSha(commits)>>

AllKeys == {<<id, "main", sha>> : id \in Repos, sha \in {"no-commits", "c2"}}

\* names of storage entries, in pieces: 'ai-slop-meter-settings' and 'ai-slop-meter-cache-'
SETTINGS_KEY == <<"ai-slop-meter-", "settings">>
CACHE_KEY_PREFIX == <<"ai-slop-meter-", "cache-">>

\* `${CACHE_KEY_PREFIX}${cacheKey}`
StorageKey(cacheKey) == CACHE_KEY_PREFIX \o cacheKey

StorageKeys == {StorageKey(k) : k \in AllKeys} \cup {SETTINGS_KEY}

\* key.startsWith(prefix)
startsWith(key, prefix) == Len(key) >= Len(prefix) /\ SubSeq(key, 1, Len(prefix)) = prefix

\* the settings the user has saved: a token, analysis on page load
StoredSettings == [autoAnalyze |-> TRUE, darkMode |-> FALSE, githubToken |-> "ghp"]

\* the storage of the installed extension before any analysis
InstalledStorage == [k \in StorageKeys |-> IF k = SETTINGS_KEY THEN Some(StoredSettings) ELSE None]

\* App as mounted: no record shown, nothing loading, no purge under way (listed: the keys
\* clearAnalysisCache has read and not yet removed; purged: what the purge banner says)
OpenedPopup ==
    [analysis |-> None, loading |-> FALSE, clearingCache |-> FALSE, listed |-> None, purged |-> None,
     purges |-> 0]

Requesters == {None} \cup {Some(t) : t \in TabIds}

\* a location of the tab: the repository it shows ("" when it shows none) and the rest
\* of the address
Url(repoId, rest) == <<repoId, rest>>

NoBadge == [label |-> "none", repoId |-> "", score |-> 0, stage |-> ""]

\* the content script as its module has been evaluated: lastUrl is the location, nothing
\* is tracked, initialize() is about to call analyzeRepo (autoAnalyze is on).  Beside the
\* script's variables: calls, the calls of analyzeRepo not yet made; navs, the moves of the
\* location; handled, handleUrlChange has run for the present location; discarded, the
\* repositories of the results that were not rendered; events, what the calls of
\* analyzeRepo did, in order ("sent", "queued", "no-repo", "settled")
LoadedPage(url) ==
    [url |-> url, lastUrl |-> url, currentRepoId |-> None, isAnalyzing |-> FALSE,
     queuedAnalyze |-> FALSE, calls |-> 1, badge |-> NoBadge, navs |-> 0, handled |-> FALSE,
     discarded |-> <<>>, events |-> <<>>]

\* no call of the score combinator apart from the runs
NoCalc == [features |-> None, result |-> None, again |-> None, before |-> None, calls |-> 0]

\* what the environment of a behaviour may do: how many requests arrive, what GitHub
\* serves, which calls fail, and whether the requester handles its messages while the
\* worker is still busy
InitWith(lim) ==
    /\ limits = lim
    /\ now = 0
    /\ ticks = 0
    /\ cache = InstalledStorage
    /\ popup = OpenedPopup
    /\ runs = [r \in Runs |-> IdleRun]
    /\ page = LoadedPage(lim.home)
    /\ calc = NoCalc

\* created_at is the year of creation, 0 where the field is missing
RecentRepo == [default_branch |-> "main", created_at |-> 2021, stargazers_count |-> 10]
LegacyRepo == [default_branch |-> "main", created_at |-> 2015, stargazers_count |-> 150]

\* repositories on either side of the cutoff and of the star count, and one without date
RepoInfos ==
    { [default_branch |-> "main", created_at |-> year, stargazers_count |-> stars] :
         year \in {0, 2019, 2020}, stars \in {149, 150} }

\* the user moves between two views of one repository and a page of no repository, and
\* only when the content script has nothing pending and the worker nothing under way
WithinRepo ==
    [home |-> Url("octo/alpha", "code"),
     pages |-> {Url("octo/alpha", "code"), Url("octo/alpha", "issues"), Url("", "notifications")},
     navWhen |-> "settled", navs |-> MaxNavs, build |-> "part_003", configs |-> {0}, log |-> FALSE]

NoHistory == <<>>
TwoCommits == << [sha |-> "c2"], [sha |-> "c1"] >>

\* one run of one repository, trees of up to MinFiles source files, every kind of failure
Init == InitWith([slots |-> 1, files |-> 0..MinFiles, repos |-> {"octo/alpha"}, requesters |-> Requesters,
                  infos |-> {RecentRepo}, histories |-> {NoHistory, TwoCommits}, statuses |-> ErrorStatuses,
                  storageFails |-> TRUE, netFails |-> TRUE, fetchFails |-> TRUE, sinks |-> BOOLEAN, throws |-> {"detectors", "scoring"},
                  lazy |-> FALSE] @@ WithinRepo)

\* -------------------------------------------------------------- record builders
\* `${indicator.type}:${indicator.description}`
indicatorKey(indicator) == <<indicator.type, ":">> \o indicator.description

\* (variant: one indicator of a type is kept)
dedupeByType(indicators) ==
    LET keep == {i \in 1..Len(indicators) : \A j \in 1..(i - 1) : indicators[j].type # indicators[i].type}
        RECURSIVE Build(_)
        Build(i) == IF i > Len(indicators) THEN <<>>
                    ELSE (IF i \in keep THEN <<indicators[i]>> ELSE <<>>) \o Build(i + 1)
    IN Build(1)

dedupeIndicators(indicators) ==
    LET key(i) == indicatorKey(indicators[i])
        keep == {i \in 1..Len(indicators) : \A j \in 1..(i - 1) : key(j) # key(i)}
        RECURSIVE Build(_)
        Build(i) == IF i > Len(indicators) THEN <<>>
                    ELSE (IF i \in keep THEN <<indicators[i]>> ELSE <<>>) \o Build(i + 1)
    IN Build(1)

NotLow(indicators) == CountIf(indicators, LAMBDA i : i.severity # "low")

\* (variant: the bulk signal is left out)
BurstWithoutBulk(commitResult) == commitResult.burstSignal

\* Math.max(burstSignal, bulkSignal * 0.8)
BurstOf(commitResult) == Max2(commitResult.burstSignal, (commitResult.bulkSignal * 8) \div 10)

\* the features record of the provisional score, lines 58-76: the commit signals alone
provisionalFeatures(commitResult) ==
    [configSignal |-> 0,
     commitLanguageSignal |-> commitResult.aiSignal,
     commitBurstSignal |-> BurstOf(commitResult),
     commentPatternSignal |-> 0,
     repetitionSignal |-> 0,
     structureUniformitySignal |-> 0,
     evidenceSignals |-> signalCount(<<commitResult.aiSignal, commitResult.burstSignal, commitResult.bulkSignal>>),
     signalValues |-> <<commitResult.aiSignal, BurstOf(commitResult)>>,
     indicatorCount |-> Len(commitResult.indicators),
     mediumHighIndicatorCount |-> NotLow(commitResult.indicators)]

\* handleAnalyzeRepo, lines 56-110.  Of the timestamps only that of a full final record is
\* ever read back (by the cache check), so the provisional and the degraded record carry none.
provisionalAnalysis(u) ==
    LET commitResult == analyzeCommitMessages(u.commits)
        provisionalIndicators == commitResult.indicators
        provisionalScore == calculateSlopScore(provisionalFeatures(commitResult))
    IN [repoId |-> u.repoId,
        slopScore |-> provisionalScore.overall,
        confidence |-> provisionalScore.confidence,
        stage |-> "provisional",
        indicators |-> provisionalIndicators,
        scoreBreakdown |-> provisionalScore.breakdown,
        diagnostics |-> [requestCount |-> u.requestCount, sampledFiles |-> 0,
                         featureValues |-> [configSignal |-> 0,
                                            commitLanguageSignal |-> RoundDiv(commitResult.aiSignal, 100),
                                            commitBurstSignal |-> RoundDiv(BurstOf(commitResult), 100),
                                            commentPatternSignal |-> 0,
                                            repetitionSignal |-> 0,
                                            structureUniformitySignal |-> 0],
                         scoreContributions |-> provisionalScore.contributions,
                         evidenceStrength |-> provisionalScore.evidenceStrength,
                         legacyRepoDampener |-> 0],
        cache |-> [isCached |-> FALSE, cacheKey |-> u.cacheKey[1]]]

\* (variant: the stars are not looked at)
isLikelyLegacyRepoByAge(repoInfo) ==
    IF repoInfo.created_at = 0 THEN FALSE
    ELSE repoInfo.created_at < 2020

isLikelyLegacyRepo(repoInfo) ==
    IF repoInfo.created_at = 0 THEN FALSE
    ELSE repoInfo.created_at < 2020 /\ repoInfo.stargazers_count >= 150

\* (variant: the config files found are not looked at)
attenuateLegacyIgnoresConfig(repoInfo, commitResult, configSignalRaw, totalMatchedCommentLines, codePatternTotalMatches, configResult) ==
    IF isLikelyLegacyRepo(repoInfo) /\ totalMatchedCommentLines < 6 /\ codePatternTotalMatches < 10
    THEN [commitLanguageSignal |-> (commitResult.aiSignal * 62) \div 100,
          commitBurstSignal |-> (BurstOf(commitResult) * 65) \div 100,
          configSignal |-> Min2(configSignalRaw, 1800)]
    ELSE [commitLanguageSignal |-> commitResult.aiSignal,
          commitBurstSignal |-> BurstOf(commitResult),
          configSignal |-> configSignalRaw]

\* runDeepAnalysis, lines 252-261: the three signals that a long-established repository
\* has discounted
attenuateLegacy(repoInfo, commitResult, configSignalRaw, totalMatchedCommentLines, codePatternTotalMatches, configResult) ==
    IF /\ isLikelyLegacyRepo(repoInfo)
       /\ totalMatchedCommentLines < 6
       /\ codePatternTotalMatches < 10
       /\ Len(configResult.files) = 0
    THEN [commitLanguageSignal |-> (commitResult.aiSignal * 62) \div 100,
          commitBurstSignal |-> (BurstOf(commitResult) * 65) \div 100,
          configSignal |-> Min2(configSignalRaw, 1800)]
    ELSE [commitLanguageSignal |-> commitResult.aiSignal,
          commitBurstSignal |-> BurstOf(commitResult),
          configSignal |-> configSignalRaw]

PathKeywords == {"ai", "copilot", "cursor", "claude", "chatgpt", "gpt", "openai", "llm",
                 "prompt", "prompts", "instruction", "instructions"}

\* a path segment equal to a keyword and followed by "/" or "."
HasPathKeyword(path) ==
    \E j \in 1..Len(path) : path[j][1] \in PathKeywords /\ (j < Len(path) \/ path[j][2] # "")

HasWorkflowPath(path) ==
    \/ \E j \in 1..(Len(path) - 1) : path[j][1] \in {".opencode", ".cursor", ".aider"}
    \/ \E j \in 1..(Len(path) - 1) : path[j] = <<".github", "">> /\ path[j + 1][1] \in {"copilot", "copilot-instructions"}
    \/ \E j \in 1..Len(path) : path[j] \in {<<"AGENTS", "md">>, <<"CLAUDE", "md">>} \/ path[j][1] = "openspec"

\* the words of priorityPattern, and the longer texts of the paths here that hold one
PriorityTexts == {"ai", "copilot", "cursor", "claude", "gpt", "prompt", "instruction", "generated",
                  "scaffold", "template", "readme", "contributing", "guide",
                  "README", "templates", "main"}

\* priorityPattern.test(file.path): some part of the path holds one of the words
HasPriorityText(path) == \E j \in 1..Len(path) : path[j][1] \in PriorityTexts \/ path[j][2] \in PriorityTexts

\* !file.path.includes('/')
IsRootPath(path) == Len(path) = 1

\* (variant: a file is pushed whether or not its path is selected already)
pushAlways(selection, file) == Append(selection, file)

pushUnique(selection, file) ==
    IF \E i \in 1..Len(selection) : selection[i].path = file.path THEN selection ELSE Append(selection, file)

\* for (const file of list) { if (selection.length >= limit) break; pushUnique(file) }
RECURSIVE pushUntil(_, _, _)
pushUntil(selection, list, limit) ==
    IF list = <<>> \/ Len(selection) >= limit THEN selection
    ELSE pushUntil(pushUnique(selection, Head(list)), Tail(list), limit)

\* for (let i = 0; i < remainingSlots; i++) { item = rest[Math.floor(i * step)]; ... }
RECURSIVE pushStrided(_, _, _, _)
pushStrided(selection, rest, remainingSlots, i) ==
    IF i >= remainingSlots THEN selection
    ELSE LET index == (i * Len(rest)) \div remainingSlots
         IN pushStrided(IF index < Len(rest) THEN pushUnique(selection, rest[index + 1]) ELSE selection,
                        rest, remainingSlots, i + 1)

\* Math.ceil(maxFiles * percent / 100)
CeilOf(maxFiles, percent) == (maxFiles * percent + 99) \div 100

\* the selection as the two capped loops leave it, lines 471-478
samplePhases(files, maxFiles) ==
    LET rootFiles == SelectSeq(files, LAMBDA file : IsRootPath(file.path))
        prioritized == SelectSeq(files, LAMBDA file : HasPriorityText(file.path))
        afterPriority == pushUntil(<<>>, prioritized, CeilOf(maxFiles, 45))
    IN [afterPriority |-> afterPriority,
        afterRoot |-> pushUntil(afterPriority, rootFiles, CeilOf(maxFiles, 60))]

pickSampleFiles(files, maxFiles) ==
    IF Len(files) <= maxFiles THEN files
    ELSE LET rest == SelectSeq(files, LAMBDA file : ~HasPriorityText(file.path) /\ ~IsRootPath(file.path))
             selection == samplePhases(files, maxFiles).afterRoot
             remainingSlots == maxFiles - Len(selection)
             strided == pushStrided(selection, rest, remainingSlots, 0)
         IN IF remainingSlots <= 0 THEN SubSeq(selection, 1, Min2(Len(selection), maxFiles))
            ELSE SubSeq(strided, 1, Min2(Len(strided), maxFiles))

analyzableFiles(files) ==
    SelectSeq(files, LAMBDA f : f.type = "file" /\ f.name[2] \in AnalyzableExtensions)

\* sampledContent.filter(Boolean): the samples whose fetch succeeded, in item order
validSamplesOf(output) ==
    LET ok == SelectSeq(output, LAMBDA o : o.st = "sample")
    IN [i \in 1..Len(ok) |-> [path |-> ok[i].path, content |-> ok[i].content]]

\* runDeepAnalysis, lines 190-361: the indicators as collected and as de-duplicated, and
\* the record handed to the combinator
deepFeatures(u) ==
    LET files == u.files
        repoInfo == u.repoInfo[1]
        commitResult == analyzeCommitMessages(u.commits)
        configResult == detectConfigFiles(files)
        structureResult == detectBoilerplateStructure(files)
        validSamples == validSamplesOf(u.pool[1].output)
        n == Len(validSamples)
        isCodeFile(sample) == sample.path[Len(sample.path)][2] \in CodeExtensions
        commentResult(i) == IF isCodeFile(validSamples[i]) THEN detectVerboseComments(validSamples[i].content)
                            ELSE [verboseBlocks |-> 0, matchedLines |-> 0, commentSignal |-> 0, indicators |-> <<>>]
        codePatternResult(i) == detectCodePatterns(validSamples[i].path, validSamples[i].content)
        verboseCommentBlocks == SumSeq([i \in 1..n |-> commentResult(i).verboseBlocks])
        totalMatchedCommentLines == SumSeq([i \in 1..n |-> commentResult(i).matchedLines])
        commentSignalTotal == SumSeq([i \in 1..n |-> commentResult(i).commentSignal])
        commentSignalMax == IF n = 0 THEN 0 ELSE Max2(0, MaxSeq([i \in 1..n |-> commentResult(i).commentSignal]))
        commentSignalHits == Cardinality({i \in 1..n : commentResult(i).matchedLines > 0})
        codePatternSignalTotal == SumSeq([i \in 1..n |-> codePatternResult(i).signal])
        codePatternSignalMax == IF n = 0 THEN 0 ELSE Max2(0, MaxSeq([i \in 1..n |-> codePatternResult(i).signal]))
        codePatternTotalMatches == SumSeq([i \in 1..n |-> codePatternResult(i).patternMatches])
        codePatternFiles == Cardinality({i \in 1..n : codePatternResult(i).patternMatches > 0})
        repetitionResult == detectRepetition(validSamples)
        pathKeywordMatches == Len(SelectSeq(files, LAMBDA f : f.type = "file" /\ HasPathKeyword(f.path)))
        aiWorkflowPathMatches == Len(SelectSeq(files, LAMBDA f : f.type = "file" /\ HasWorkflowPath(f.path)))
        pathKeywordSignal == boundedScale(pathKeywordMatches, 1, 12)
        workflowPathSignal == boundedScale(aiWorkflowPathMatches, 1, 10)
        baseConfigSignal == IF configResult.found THEN Min2(4500 + Len(configResult.files) * 2000, SignalOne) ELSE 0
        configSignalRaw == clamp(baseConfigSignal + ((pathKeywordSignal * 4) \div 10) + ((workflowPathSignal * 5) \div 10), 0, SignalOne)
        sampleCount == Max2(n, 1)
        commentAvg == IF sampleCount <= 0 THEN 0 ELSE commentSignalTotal \div sampleCount
        codePatternAvg == IF sampleCount <= 0 THEN 0 ELSE codePatternSignalTotal \div sampleCount
        commentHitRate == ratio(commentSignalHits, sampleCount)
        commentPatternSignal ==
            clamp((commentAvg * 35 + commentSignalMax * 25 + codePatternAvg * 15 + codePatternSignalMax * 10
                   + boundedScale(commentHitRate, 800, 4500) * 10
                   + boundedScale(totalMatchedCommentLines, 3, 24) * 25) \div 100, 0, SignalOne)
        isLegacyRepo == isLikelyLegacyRepo(repoInfo)
        attenuated == attenuateLegacy(repoInfo, commitResult, configSignalRaw, totalMatchedCommentLines,
                                      codePatternTotalMatches, configResult)
        commitLanguageSignal == attenuated.commitLanguageSignal
        commitBurstSignal == attenuated.commitBurstSignal
        configSignal == attenuated.configSignal
        collected == (
            commitResult.indicators
            \o (IF totalMatchedCommentLines > 0
                THEN << Indicator("Prompt-like Comment Pattern",
                                  <<"Detected", ToString(totalMatchedCommentLines), "AI-like comment lines across",
                                    ToString(verboseCommentBlocks), "block(s)">>,
                                  IF totalMatchedCommentLines >= 8 THEN "high"
                                  ELSE IF totalMatchedCommentLines >= 3 THEN "medium" ELSE "low") >>
                ELSE <<>>)
            \o (IF codePatternTotalMatches > 0
                THEN << Indicator("AI Boilerplate Trace",
                                  <<ToString(codePatternTotalMatches), "prompt-like marker(s) across",
                                    ToString(codePatternFiles), "file(s)">>,
                                  IF codePatternTotalMatches >= 12 THEN "high"
                                  ELSE IF codePatternTotalMatches >= 4 THEN "medium" ELSE "low"),
                        Indicator("AI Boilerplate Trace", <<"Top files", ToString(codePatternFiles)>>, "low") >>
                ELSE <<>>)
            \o repetitionResult.indicators
            \o structureResult.indicators
            \o (IF pathKeywordMatches > 0
                THEN << Indicator("AI-oriented File Paths",
                                  <<ToString(pathKeywordMatches), "file path(s) reference AI/prompt/instruction keywords">>,
                                  IF pathKeywordMatches >= 4 THEN "medium" ELSE "low") >>
                ELSE <<>>)
            \o (IF aiWorkflowPathMatches > 0
                THEN << Indicator("AI Workflow Files",
                                  <<ToString(aiWorkflowPathMatches), "workflow/instruction file path(s) detected">>,
                                  IF aiWorkflowPathMatches >= 3 THEN "medium" ELSE "low") >>
                ELSE <<>>)
            \o (IF configResult.found
                THEN << Indicator("AI Config Files", <<"Found AI config files", ToString(Len(configResult.files))>>,
                                  configResult.severity) >>
                ELSE <<>>)
            \o (IF isLegacyRepo
                THEN << Indicator("Legacy Repo Dampener",
                                  <<"Reduced commit/path-only confidence for long-established repository history">>,
                                  "low") >>
                ELSE <<>>))
        indicators == dedupeIndicators(collected)
        features ==
            [configSignal |-> configSignal,
             commitLanguageSignal |-> commitLanguageSignal,
             commitBurstSignal |-> commitBurstSignal,
             commentPatternSignal |-> commentPatternSignal,
             repetitionSignal |-> repetitionResult.repetitionSignal,
             structureUniformitySignal |-> structureResult.uniformitySignal,
             evidenceSignals |-> signalCount(<<configSignal, commitLanguageSignal, commitBurstSignal,
                                               commentPatternSignal, repetitionResult.repetitionSignal,
                                               structureResult.uniformitySignal, workflowPathSignal>>),
             signalValues |-> <<configSignal, commitLanguageSignal, commitBurstSignal, commentPatternSignal,
                                repetitionResult.repetitionSignal, structureResult.uniformitySignal,
                                workflowPathSignal>>,
             indicatorCount |-> Len(indicators),
             mediumHighIndicatorCount |-> NotLow(indicators)]
    IN [collected |-> collected,
        indicators |-> indicators,
        features |-> features,
        sampledFiles |-> n,
        isLegacyRepo |-> isLegacyRepo]

\* runDeepAnalysis, lines 332-404
finalAnalysis(u, t) ==
    LET deep == deepFeatures(u)
        scoring == calculateSlopScore(deep.features)
    IN [repoId |-> u.repoId,
        slopScore |-> scoring.overall,
        confidence |-> scoring.confidence,
        stage |-> "final",
        indicators |-> deep.indicators,
        scoreBreakdown |-> scoring.breakdown,
        diagnostics |-> [requestCount |-> u.requestCount, sampledFiles |-> deep.sampledFiles,
                         evidenceStrength |-> scoring.evidenceStrength,
                         legacyRepoDampener |-> IF deep.isLegacyRepo THEN 1 ELSE 0],
        cache |-> [isCached |-> FALSE, cacheKey |-> u.cacheKey[1]],
        timestamp |-> t]

DeepAnalysisIncomplete ==
    Indicator("Deep Analysis Incomplete",
              <<"Final pass did not complete; showing provisional likelihood only">>, "low")

\* (variant: the provisional confidence is kept)
failedAnalysisKeepsConfidence(provisional) ==
    [provisional EXCEPT !.stage = "final",
                        !.indicators = dedupeIndicators(Append(@, DeepAnalysisIncomplete))]

\* runDeepAnalysis, lines 410-430
failedAnalysis(provisional) ==
    [provisional EXCEPT !.stage = "final",
                        !.confidence = "low",
                        !.indicators = dedupeIndicators(Append(@, DeepAnalysisIncomplete))]

\* ---------------------------------------------------------------- worker pool
Unset == [st |-> "unset"]
Null == [st |-> "null"]
Sample(file) == [st |-> "sample", path |-> file.path, content |-> FileContent(file)]

\* (variant: one worker per item)
WorkerCountUncapped(concurrency, items) == Len(items)

\* Math.min(concurrency, items.length) workers
WorkerCount(concurrency, items) == Min2(concurrency, Len(items))

\* mapWithConcurrency up to the first await of every worker: worker w has taken item w
mapWithConcurrency(items, concurrency) ==
    LET k == WorkerCount(concurrency, items)
    IN [items |-> items,
        index |-> k,
        output |-> [i \in 1..Len(items) |-> Unset],
        workers |-> [w \in 1..k |-> [st |-> "fetch", cur |-> w]]]

\* (variant: a worker handles one item and returns)
WorkerLoopOnce(pool, w) == [pool EXCEPT !.workers[w] = [st |-> "done", cur |-> 0]]

\* the while loop of a worker after its mapper call settled
WorkerLoop(pool, w) ==
    IF pool.index < Len(pool.items)
    THEN [pool EXCEPT !.index = @ + 1, !.workers[w] = [st |-> "fetch", cur |-> pool.index + 1]]
    ELSE [pool EXCEPT !.workers[w] = [st |-> "done", cur |-> 0]]

\* (variant: the index is read after the await, the result lands where the shared index is)
WorkerSettleAtSharedIndex(pool, w, result) ==
    WorkerLoop([pool EXCEPT !.output[pool.index] = result], w)

\* output[currentIndex] = await mapper(items[currentIndex]), then the loop goes on
WorkerSettle(pool, w, result) ==
    WorkerLoop([pool EXCEPT !.output[pool.workers[w].cur] = result], w)

InFlight(pool) == {w \in 1..Len(pool.workers) : pool.workers[w].st \in {"fetch", "hung"}}

Hung(pool) == {w \in 1..Len(pool.workers) : pool.workers[w].st = "hung"}

AllWorkersDone(pool) == \A w \in 1..Len(pool.workers) : pool.workers[w].st = "done"

\* ----------------------------------------------------------- request handling
SetRun(r, u) == runs' = [runs EXCEPT ![r] = u]

Message(kind, payload) == [kind |-> kind, payload |-> payload]

\* (variant: a message overtakes those sent to the same requester before it)
PostAhead(inbox, msg) == <<msg>> \o inbox

\* a message is sent to a requester: it is handled after those sent to it before
Post(inbox, msg) == Append(inbox, msg)

\* (variant: the listener has closed the channel, the response goes nowhere)
RespondWithClosedChannel(u, resp) == [u EXCEPT !.response = Some(resp)]

\* sendResponse
RespondWith(u, resp) ==
    [u EXCEPT !.response = Some(resp), !.inbox = Post(@, Message("response", resp))]

\* (variant: the rejection is answered as a success)
RejectAsSuccess(u, error) ==
    RespondWith([u EXCEPT !.pc = "rejected", !.failedAt = u.pc, !.thrown = Some(error)],
                [success |-> TRUE, error |-> mapError(error)])

\* .catch((error) => sendResponse({ success: false, error: mapError(error) }))
Reject(u, error) ==
    RespondWith([u EXCEPT !.pc = "rejected", !.failedAt = u.pc, !.thrown = Some(error)],
                [success |-> FALSE, error |-> mapError(error)])

Failures(u, failurePrefix) ==
    {parseResponse(st, failurePrefix) : st \in limits.statuses}
    \cup (IF limits.netFails THEN {PlainError("Failed to fetch")} ELSE {})

\* publishAnalysisUpdate up to its first await
StartPublish(u, analysis) ==
    [u EXCEPT !.pubs = Append(@, analysis),
              !.pc = IF u.tabId # None THEN "pubTab" ELSE "pubBroadcast"]

\* (variant: the catch block only records the failure)
EnterCatchSilent(u, where) == [u EXCEPT !.phase = "catch", !.failedAt = where, !.pc = "done"]

\* (variant: the catch block relabels the provisional record in place)
EnterCatchRelabels(u, where) ==
    StartPublish([u EXCEPT !.phase = "catch", !.failedAt = where,
                           !.provisional = Some(failedAnalysis(u.provisional[1])),
                           !.response = Some([success |-> TRUE, data |-> failedAnalysis(u.provisional[1])])],
                 failedAnalysis(u.provisional[1]))

\* (variant: the catch block stores the degraded record before it publishes it)
EnterCatchCaches(u, where) ==
    [u EXCEPT !.pc = "cacheSet", !.failedAt = where, !.final = Some(failedAnalysis(u.provisional[1]))]

\* the catch block of runDeepAnalysis
EnterCatch(u, where) ==
    StartPublish([u EXCEPT !.phase = "catch", !.failedAt = where],
                 failedAnalysis(u.provisional[1]))

\* (variant: a failed delivery is rethrown into the caller)
publishCatchRethrows(u, delivered) ==
    IF delivered THEN u
    ELSE IF u.phase = "try" THEN EnterCatch(u, "publish")
         ELSE [u EXCEPT !.pc = "done", !.phase = "crashed"]

\* (variant: a failed delivery ends the publication)
publishCatchGivesUp(u, delivered) == IF delivered THEN u ELSE [u EXCEPT !.pc = "done"]

\* try { await send } catch { }: a failed delivery leaves the run as it is
publishCatch(u, delivered) == u

\* a continuation that reads or writes nothing but its own run is waiting to be run
LocalPending(u) ==
    \/ u.pc \in {"token", "repoInfo", "commits", "tree", "pubTab", "pubBroadcast"}
    \/ u.pc = "pool" /\ \E w \in 1..Len(u.pool[1].workers) : u.pool[1].workers[w].st = "fetch"

\* under limits.lazy the steps that read or write the clock or the cache, and the arrival
\* of a request, wait for the continuations that touch one run only: those commute with
\* every step of another run, so no state of the clock and the cache is lost
Settled == limits.lazy => \A q \in Runs : ~LocalPending(runs[q])

\* -------------------------------------------------------------- content script
\* getCurrentRepo: the owner/repo of the location, null on a page of no repository
getCurrentRepo(url) == IF url[1] = "" THEN None ELSE Some(url[1])

\* the record of what the calls of analyzeRepo did, kept where limits.log asks for it
Logged(events, event) == IF limits.log THEN Append(events, event) ELSE events

\* injectBadge with a status label
injectBadge(p, label) == [p EXCEPT !.badge = [NoBadge EXCEPT !.label = label]]

\* renderAnalysisBadge(score, stage); the repository of the record is kept beside it
renderAnalysisBadge(p, analysis) ==
    [p EXCEPT !.badge = [label |-> "score", repoId |-> analysis.repoId,
                         score |-> analysis.slopScore, stage |-> analysis.stage]]

Discard(p, analysis) == [p EXCEPT !.discarded = Append(@, analysis.repoId)]

\* (variant: the answer is rendered without a look at the tracked repository)
analyzeRepoAnsweredUnchecked(p, response) ==
    LET shown == IF ~response.success THEN injectBadge(p, "Analysis unavailable")
                 ELSE renderAnalysisBadge(p, response.data)
    IN [shown EXCEPT !.isAnalyzing = FALSE, !.queuedAnalyze = FALSE,
                     !.calls = IF p.queuedAnalyze THEN @ + 1 ELSE @,
                     !.events = Logged(@, "settled")]

\* what sendMessage resolves to when the worker is gone before it has answered
Undefined == [undefined |-> TRUE]

IsUndefined(response) == "undefined" \in DOMAIN response

\* (variant: the finally block forgets the queued call)
analyzeRepoAnsweredDropsQueue(p, response) ==
    LET shown == IF IsUndefined(response) THEN injectBadge(p, "Analysis error")
                 ELSE IF ~response.success THEN injectBadge(p, "Analysis unavailable")
                 ELSE IF Some(response.data.repoId) = p.currentRepoId
                      THEN renderAnalysisBadge(p, response.data)
                      ELSE Discard(p, response.data)
    IN [shown EXCEPT !.isAnalyzing = FALSE, !.queuedAnalyze = FALSE, !.events = Logged(@, "settled")]

\* analyzeRepo from the point where its request settles, up to the call its finally block
\* makes when one was queued (counted in calls; Deliver makes it in the same step).
\* response.success of an undefined response throws, and the catch block shows the error
analyzeRepoAnswered(p, response) ==
    LET shown == IF IsUndefined(response) THEN injectBadge(p, "Analysis error")
                 ELSE IF ~response.success THEN injectBadge(p, "Analysis unavailable")
                 ELSE IF Some(response.data.repoId) = p.currentRepoId
                      THEN renderAnalysisBadge(p, response.data)
                      ELSE Discard(p, response.data)
    IN [shown EXCEPT !.isAnalyzing = FALSE, !.queuedAnalyze = FALSE,
                     !.calls = IF p.queuedAnalyze THEN @ + 1 ELSE @,
                     !.events = Logged(@, "settled")]

\* the ANALYSIS_UPDATE listener that compares with the location
onAnalysisUpdate(p, payload) ==
    LET repo == getCurrentRepo(p.url)
    IN IF repo = None \/ payload.repoId # repo[1] THEN Discard(p, payload)
       ELSE renderAnalysisBadge([p EXCEPT !.currentRepoId = repo], payload)

\* the ANALYSIS_UPDATE listener that compares with the tracked repository
onAnalysisUpdateTracked(p, payload) ==
    IF p.currentRepoId = None \/ Some(payload.repoId) # p.currentRepoId THEN Discard(p, payload)
    ELSE renderAnalysisBadge(p, payload)

\* the content script handles a message of the worker
Handle(p, msg) ==
    IF msg.kind = "response" THEN analyzeRepoAnswered(p, msg.payload)
    ELSE IF limits.build = "part_003" THEN onAnalysisUpdate(p, msg.payload)
         ELSE onAnalysisUpdateTracked(p, msg.payload)

\* ------------------------------------------------------------------- the popup
\* handleAnalyze from the point where its request is answered
handleAnalyzeAnswered(q, response) ==
    IF IsUndefined(response) \/ ~response.success THEN [q EXCEPT !.loading = FALSE]
    ELSE [q EXCEPT !.analysis = Some(response.data), !.loading = FALSE]

\* the ANALYSIS_UPDATE listener of App: a record of another repository than the one shown
\* is ignored
onPopupUpdate(q, payload) ==
    IF q.analysis # None /\ payload.repoId # q.analysis[1].repoId THEN q
    ELSE [q EXCEPT !.analysis = Some(payload), !.loading = FALSE]

\* the popup handles a message of the worker
HandlePopup(q, msg) ==
    IF msg.kind = "response" THEN handleAnalyzeAnswered(q, msg.payload)
    ELSE onPopupUpdate(q, msg.payload)

\* (variant: every entry of the extension is taken for a cache entry)
cacheKeysOfExtension(allItems) ==
    {key \in DOMAIN allItems : allItems[key] # None /\ startsWith(key, <<"ai-slop-meter-">>)}

\* Object.keys(allItems).filter((key) => key.startsWith(CACHE_KEY_PREFIX))
cacheKeysOf(allItems) ==
    {key \in DOMAIN allItems : allItems[key] # None /\ startsWith(key, CACHE_KEY_PREFIX)}

\* chrome.storage.local.remove(cacheKeys)
removeKeys(store, keys) == [key \in DOMAIN store |-> IF key \in keys THEN None ELSE store[key]]

\* handleClearCache up to the second await of clearAnalysisCache: the whole storage has
\* been read and the cache keys picked; with none to remove the call returns 0 at once
ClearCacheList ==
    /\ ~popup.clearingCache
    /\ popup.purges < MaxPurges
    /\ Settled
    /\ \/ LET cacheKeys == cacheKeysOf(cache)
          IN popup' = IF cacheKeys = {}
                      THEN [popup EXCEPT !.purges = @ + 1, !.purged = Some(0)]
                      ELSE [popup EXCEPT !.purges = @ + 1, !.clearingCache = TRUE,
                                         !.listed = Some(cacheKeys), !.purged = None]
       \/ /\ limits.storageFails
          /\ popup' = [popup EXCEPT !.purges = @ + 1, !.purged = Some("failed")]
    /\ UNCHANGED <<calc, limits, now, ticks, cache, runs, page>>

\* chrome.storage.local.remove settles: clearAnalysisCache returns the number of keys, the
\* banner says how many entries were removed
ClearCacheRemove ==
    /\ popup.clearingCache
    /\ Settled
    /\ \/ /\ cache' = removeKeys(cache, popup.listed[1])
          /\ popup' = [popup EXCEPT !.clearingCache = FALSE, !.listed = None,
                                    !.purged = Some(Cardinality(popup.listed[1]))]
       \/ /\ limits.storageFails
          /\ cache' = cache
          /\ popup' = [popup EXCEPT !.clearingCache = FALSE, !.listed = None, !.purged = Some("failed")]
    /\ UNCHANGED <<calc, limits, now, ticks, runs, page>>

\* the user, or the page, moves the tab to another location without a reload
Navigate ==
    /\ page.navs < limits.navs
    /\ limits.navWhen = "settled" =>
            /\ page.calls = 0 /\ ~page.isAnalyzing /\ page.url = page.lastUrl
            /\ \A q \in Runs : runs[q].inbox = <<>> /\ runs[q].pc \in {"idle", "hit", "rejected", "done"}
    /\ \E url \in limits.pages \ {page.url} :
          page' = [page EXCEPT !.url = url, !.navs = @ + 1, !.handled = FALSE]
    /\ UNCHANGED <<calc, limits, now, ticks, cache, runs, popup>>

\* handleUrlChange finds the location changed: nothing is tracked, the badge is removed,
\* analyzeRepo is called (once the autoAnalyze setting has been read)
handleUrlChange ==
    /\ page.url # page.lastUrl
    /\ page' = [page EXCEPT !.lastUrl = page.url, !.currentRepoId = None,
                             !.badge = NoBadge, !.calls = @ + 1, !.handled = TRUE]
    /\ UNCHANGED <<calc, limits, now, ticks, cache, runs, popup>>

\* analyzeRepo called while a request is under way: queuedAnalyze = true; return
analyzeRepoQueues(p) ==
    [p EXCEPT !.calls = @ - 1, !.queuedAnalyze = TRUE, !.events = Logged(@, "queued")]

\* analyzeRepo called on a page of no repository: return
analyzeRepoFindsNone(p) == [p EXCEPT !.calls = @ - 1, !.events = Logged(@, "no-repo")]

\* (variant: the request is sent without isAnalyzing being set)
analyzeRepoSendsUnmarked(p, repo) ==
    injectBadge([p EXCEPT !.calls = @ - 1, !.currentRepoId = Some(repo), !.events = Logged(@, "sent")],
                "Analyzing...")

\* analyzeRepo is called and returns before sending: a request is under way (the call is
\* queued), or the location shows no repository
analyzeRepoReturns ==
    /\ page.calls > 0
    /\ \/ /\ page.isAnalyzing
          /\ page' = analyzeRepoQueues(page)
       \/ /\ ~page.isAnalyzing /\ getCurrentRepo(page.url) = None
          /\ page' = analyzeRepoFindsNone(page)
    /\ UNCHANGED <<calc, limits, now, ticks, cache, runs, popup>>

\* analyzeRepo up to its await: the repository of the location is tracked, the loading
\* badge is shown, ANALYZE_REPO is sent
analyzeRepoSends(p, repo) ==
    injectBadge([p EXCEPT !.calls = @ - 1, !.currentRepoId = Some(repo), !.isAnalyzing = TRUE,
                          !.events = Logged(@, "sent")],
                "Analyzing...")

\* handleAnalyzeRepo is entered for a request
StartedRun(repo, tab) == [IdleRun EXCEPT !.pc = "token", !.repoId = repo, !.tabId = tab]

\* the slot of the next request
IsNextSlot(r) == runs[r].pc = "idle" /\ r <= limits.slots /\ (r > 1 => runs[r - 1].pc # "idle")

\* onMessage listener: ANALYZE_REPO starts handleAnalyzeRepo, which awaits getToken();
\* the request is the content script's (sender.tab.id is set) or the popup's, which asks
\* once
ReceiveAnalyze(r) ==
    /\ IsNextSlot(r)
    /\ Settled
    /\ \E repo \in limits.repos, tab \in limits.requesters :
          /\ SetRun(r, StartedRun(repo, tab))
          /\ IF tab = None
             THEN /\ \A q \in Runs : runs[q].pc # "idle" => runs[q].tabId # None
                  /\ page' = page
                  /\ popup' = [popup EXCEPT !.loading = TRUE]
             ELSE /\ page.calls > 0 /\ ~page.isAnalyzing
                  /\ getCurrentRepo(page.url) = Some(repo)
                  /\ page' = analyzeRepoSends(page, repo)
                  /\ popup' = popup
    /\ UNCHANGED <<calc, limits, now, ticks, cache>>

\* (variant: one counter for the whole worker, which every run adds to)
withCountShared(u, requests) ==
    [u EXCEPT !.requestCount = MaxSeq([q \in Runs |-> runs[q].requestCount]) + requests]

\* requestCount++ of the run, once for every request it makes in the step
withCount(u, requests) == [u EXCEPT !.requestCount = @ + requests]

\* getToken settles; withCount(fetchRepoInfo)
TokenDone(r) ==
    /\ runs[r].pc = "token"
    /\ \/ SetRun(r, withCount([runs[r] EXCEPT !.pc = "repoInfo"], 1))
       \/ /\ limits.storageFails
          /\ SetRun(r, Reject(runs[r], PlainError("storage unavailable")))
    /\ UNCHANGED <<calc, limits, now, ticks, cache, page, popup>>

\* fetchRepoInfo settles; withCount(fetchCommitHistory)
RepoInfoDone(r) ==
    /\ runs[r].pc = "repoInfo"
    /\ \/ \E info \in limits.infos :
             SetRun(r, withCount([runs[r] EXCEPT !.pc = "commits", !.repoInfo = Some(info)], 1))
       \/ \E e \in Failures(runs[r], "Failed to fetch repo info") : SetRun(r, Reject(runs[r], e))
    /\ UNCHANGED <<calc, limits, now, ticks, cache, page, popup>>

\* fetchCommitHistory settles; the cache key is built; getCachedAnalysisByKey is awaited
CommitsDone(r) ==
    /\ runs[r].pc = "commits"
    /\ \/ \E commits \in limits.histories :
             SetRun(r, [runs[r] EXCEPT !.pc = "cacheGet", !.commits = commits,
                                       !.cacheKey = Some(CacheKey(runs[r].repoId, runs[r].repoInfo[1], commits))])
       \/ \E e \in Failures(runs[r], "Failed to fetch commit history") : SetRun(r, Reject(runs[r], e))
    /\ UNCHANGED <<calc, limits, now, ticks, cache, page, popup>>

\* (variant: a record aged exactly the time-to-live still counts as fresh)
IsFreshInclusive(cached, t) == cached # None /\ t - cached[1].timestamp <= CACHE_TTL_MS

\* getCachedAnalysisByKey: the entry exists and Date.now() - timestamp < CACHE_TTL_MS
IsFresh(cached, t) == cached # None /\ t - cached[1].timestamp < CACHE_TTL_MS

\* getCachedAnalysisByKey: the entry under the prefixed key, null when there is none
getCachedAnalysisByKey(store, cacheKey) == store[StorageKey(cacheKey)]

\* the cached record as returned on a hit
CachedCopy(cached, cacheKey) == [cached EXCEPT !.cache = [isCached |-> TRUE, cacheKey |-> cacheKey]]

\* getCachedAnalysisByKey settles: a fresh record is returned, otherwise the provisional
\* record is built, runDeepAnalysis is started (up to its fetchRepoTree) and the
\* provisional record is returned
CacheGetDone(r) ==
    /\ runs[r].pc = "cacheGet"
    /\ Settled
    /\ LET u == runs[r]
           cached == getCachedAnalysisByKey(cache, u.cacheKey[1])
       IN \/ /\ IsFresh(cached, now)
             /\ SetRun(r, RespondWith([u EXCEPT !.pc = "hit"],
                                      [success |-> TRUE, data |-> CachedCopy(cached[1], u.cacheKey[1])]))
          \/ /\ ~IsFresh(cached, now)
             /\ LET provisional == provisionalAnalysis(u)
                IN SetRun(r, RespondWith(withCount([u EXCEPT !.pc = "tree", !.phase = "try",
                                                             !.provisional = Some(provisional)], 1),
                                         [success |-> TRUE, data |-> provisional]))
          \/ /\ limits.storageFails
             /\ SetRun(r, Reject(u, PlainError("storage unavailable")))
    /\ UNCHANGED <<calc, limits, now, ticks, cache, page, popup>>

\* ------------------------------------------------------------------ deep pass
\* fetchRepoTree settles; detectors over the tree, sampling, the workers start
TreeDone(r) ==
    /\ runs[r].pc = "tree"
    /\ LET u == runs[r]
       IN \/ \E e \in Failures(u, "Failed to fetch repo tree") : SetRun(r, EnterCatch(u, "tree"))
          \/ /\ "detectors" \in limits.throws
             /\ SetRun(r, EnterCatch(u, "detectors"))
          \/ \E k \in limits.files, c \in limits.configs :
                LET files == TreeWithConfigs(k, c)
                    sampledFiles == pickSampleFiles(analyzableFiles(files), MAX_SAMPLED_FILES)
                    pool == mapWithConcurrency(sampledFiles, FILE_FETCH_CONCURRENCY)
                IN SetRun(r, withCount([u EXCEPT !.pc = "pool", !.files = files, !.pool = Some(pool)],
                                       Len(pool.workers)))
    /\ UNCHANGED <<calc, limits, now, ticks, cache, page, popup>>

\* (variant: the mapper has no try/catch, a failed fetch rejects Promise.all)
FetchSettledThrows(u, w, fetched) ==
    IF fetched
    THEN LET pool == u.pool[1]
             after == WorkerSettle(pool, w, Sample(pool.items[pool.workers[w].cur]))
         IN [u EXCEPT !.pool = Some(after), !.requestCount = @ + (after.index - pool.index)]
    ELSE EnterCatch(u, "fileFetch")

\* the mapper: try { content = await withCount(fetchFileContent) ; return the sample }
\* catch { return null }, and the worker that called it goes on with the next item
FetchSettled(u, w, fetched) ==
    LET pool == u.pool[1]
        file == pool.items[pool.workers[w].cur]
        after == WorkerSettle(pool, w, IF fetched THEN Sample(file) ELSE Null)
    IN withCount([u EXCEPT !.pool = Some(after)], after.index - pool.index)

\* the file-content request of one worker settles
FileFetchDone(r, w) ==
    /\ runs[r].pc = "pool"
    /\ w \in 1..Len(runs[r].pool[1].workers)
    /\ runs[r].pool[1].workers[w].st = "fetch"
    /\ \E fetched \in {TRUE} \cup (IF limits.fetchFails THEN {FALSE} ELSE {}) :
          SetRun(r, FetchSettled(runs[r], w, fetched))
    /\ UNCHANGED <<calc, limits, now, ticks, cache, page, popup>>

\* the request of one worker never completes (no timeout is enforced)
FileFetchHang(r, w) ==
    /\ runs[r].pc = "pool"
    /\ w \in 1..Len(runs[r].pool[1].workers)
    /\ runs[r].pool[1].workers[w].st = "fetch"
    /\ Cardinality(Hung(runs[r].pool[1])) < MaxHung
    /\ SetRun(r, [runs[r] EXCEPT !.pool[1].workers[w].st = "hung"])
    /\ UNCHANGED <<calc, limits, now, ticks, cache, page, popup>>

\* Promise.all(workers) resolves; per-sample detectors, scoring, the final record;
\* cacheAnalysisByKey is awaited
PoolDone(r) ==
    /\ runs[r].pc = "pool"
    /\ Settled
    /\ AllWorkersDone(runs[r].pool[1])
    /\ LET u == runs[r]
       IN \/ /\ "scoring" \in limits.throws
             /\ SetRun(r, EnterCatch(u, "scoring"))
          \/ SetRun(r, [u EXCEPT !.pc = "cacheSet", !.final = Some(finalAnalysis(u, now))])
    /\ UNCHANGED <<calc, limits, now, ticks, cache, page, popup>>

\* (variant: an entry that is there is left as it is)
cacheKeepsExisting(store, cacheKey, data) ==
    IF store[StorageKey(cacheKey)] = None THEN [store EXCEPT ![StorageKey(cacheKey)] = Some(data)] ELSE store

\* chrome.storage.local.set({ [key]: data }): the entry under the key is replaced whole
cacheAnalysisByKey(store, cacheKey, data) == [store EXCEPT ![StorageKey(cacheKey)] = Some(data)]

\* (variant: a failed cache write is ignored, the full record is published all the same)
CacheSetDoneBestEffort(r) ==
    /\ runs[r].pc = "cacheSet"
    /\ Settled
    /\ \/ cache' = cacheAnalysisByKey(cache, runs[r].cacheKey[1], runs[r].final[1])
       \/ limits.storageFails /\ cache' = cache
    /\ SetRun(r, StartPublish(runs[r], runs[r].final[1]))
    /\ UNCHANGED <<calc, limits, now, ticks, page, popup>>

\* cacheAnalysisByKey settles; publishAnalysisUpdate(finalAnalysis) starts
CacheSetDone(r) ==
    /\ runs[r].pc = "cacheSet"
    /\ Settled
    /\ LET u == runs[r]
       IN \/ /\ cache' = cacheAnalysisByKey(cache, u.cacheKey[1], u.final[1])
             /\ SetRun(r, StartPublish(u, u.final[1]))
          \/ /\ limits.storageFails
             /\ UNCHANGED cache
             /\ SetRun(r, EnterCatch(u, "cacheWrite"))
    /\ UNCHANGED <<calc, limits, now, ticks, page, popup>>

Update(u) == Message("update", u.pubs[Len(u.pubs)])

\* chrome.tabs.sendMessage settles; chrome.runtime.sendMessage is called
TabSendDone(r) ==
    /\ runs[r].pc = "pubTab"
    /\ \E delivered \in limits.sinks :
          LET u == runs[r]
              sent == [u EXCEPT !.sinkLog = Append(@, <<"tab", delivered>>),
                                !.inbox = IF delivered THEN Post(@, Update(u)) ELSE @]
              after == publishCatch(sent, delivered)
          IN SetRun(r, IF after.pc = "pubTab" /\ after.phase = u.phase
                       THEN [after EXCEPT !.pc = "pubBroadcast"] ELSE after)
    /\ UNCHANGED <<calc, limits, now, ticks, cache, page, popup>>

\* chrome.runtime.sendMessage settles; publishAnalysisUpdate returns
BroadcastDone(r) ==
    /\ runs[r].pc = "pubBroadcast"
    /\ \E delivered \in limits.sinks :
          LET u == runs[r]
              sent == [u EXCEPT !.sinkLog = Append(@, <<"broadcast", delivered>>),
                                !.inbox = IF delivered /\ u.tabId = None THEN Post(@, Update(u)) ELSE @]
              after == publishCatch(sent, delivered)
          IN SetRun(r, IF after.pc = "pubBroadcast" /\ after.phase = u.phase
                       THEN [after EXCEPT !.pc = "done"] ELSE after)
    /\ UNCHANGED <<calc, limits, now, ticks, cache, page, popup>>

\* the requester handles the oldest message sent to it; the content script makes the call
\* it had queued, if any, as the last thing of handling the answer to its request
Deliver(r) ==
    /\ runs[r].inbox # <<>>
    /\ limits.lazy => \A q \in Runs : runs[q].pc \in {"idle", "hit", "rejected", "done", "killed"}
    /\ LET msg == Head(runs[r].inbox)
           handled == [runs EXCEPT ![r] = [@ EXCEPT !.inbox = Tail(@), !.got = Append(@, msg)]]
           repo == getCurrentRepo(page.url)
       IN IF runs[r].tabId = None
          THEN runs' = handled /\ page' = page /\ popup' = HandlePopup(popup, msg)
          ELSE /\ popup' = popup
               /\ IF Handle(page, msg).calls = page.calls
                  THEN runs' = handled /\ page' = Handle(page, msg)
                  ELSE IF repo = None
                       THEN runs' = handled /\ page' = analyzeRepoFindsNone(Handle(page, msg))
                       ELSE \E next \in Runs :
                               /\ IsNextSlot(next)
                               /\ runs' = [handled EXCEPT ![next] = StartedRun(repo[1], runs[r].tabId)]
                               /\ page' = analyzeRepoSends(Handle(page, msg), repo[1])
    /\ UNCHANGED <<calc, limits, now, ticks, cache>>

\* the service worker is terminated while requests are unanswered: what it was doing is
\* gone, and every sendMessage still waiting for its answer resolves to undefined
WorkerKilled ==
    /\ \E r \in Runs : runs[r].pc \in {"token", "repoInfo", "commits", "cacheGet"}
    /\ runs' = [r \in Runs |->
                  IF runs[r].pc \in {"idle", "hit", "rejected", "done", "killed"} THEN runs[r]
                  ELSE [runs[r] EXCEPT !.pc = "killed",
                                       !.inbox = IF runs[r].response = None
                                                 THEN Post(@, Message("response", Undefined)) ELSE @]]
    /\ UNCHANGED <<calc, limits, now, ticks, cache, page, popup>>

\* the clock advances
Delays == {CACHE_TTL_MS - 1, CACHE_TTL_MS}

\* the next step of run r reads Date.now()
ReadsClockNext(r) ==
    \/ runs[r].pc = "cacheGet"
    \/ runs[r].pc = "pool" /\ AllWorkersDone(runs[r].pool[1])

\* time passes; only the amount that has passed at the next reading of the clock matters
Tick ==
    /\ ticks < MaxTicks
    /\ Settled
    /\ \E r \in Runs : ReadsClockNext(r)
    /\ \E d \in Delays : now' = now + d
    /\ ticks' = ticks + 1
    /\ UNCHANGED <<calc, limits, cache, runs, page, popup>>

Next ==
    \/ \E r \in Runs : ReceiveAnalyze(r)
    \/ \E r \in Runs : TokenDone(r)
    \/ \E r \in Runs : RepoInfoDone(r)
    \/ \E r \in Runs : CommitsDone(r)
    \/ \E r \in Runs : CacheGetDone(r)
    \/ \E r \in Runs : TreeDone(r)
    \/ \E r \in Runs, w \in 1..MAX_SAMPLED_FILES : FileFetchDone(r, w)
    \/ \E r \in Runs, w \in 1..MAX_SAMPLED_FILES : FileFetchHang(r, w)
    \/ \E r \in Runs : PoolDone(r)
    \/ \E r \in Runs : CacheSetDone(r)
    \/ \E r \in Runs : TabSendDone(r)
    \/ \E r \in Runs : BroadcastDone(r)
    \/ \E r \in Runs : Deliver(r)
    \/ Tick
    \/ Navigate
    \/ handleUrlChange
    \/ analyzeRepoReturns

Spec == Init /\ [][Next]_vars

\* every settled promise of the deep pass has its continuation run, and the requester
\* handles what was sent to it
DeepStep(r) ==
    \/ TreeDone(r)
    \/ \E w \in 1..MAX_SAMPLED_FILES : FileFetchDone(r, w)
    \/ PoolDone(r)
    \/ CacheSetDone(r)
    \/ TabSendDone(r)
    \/ BroadcastDone(r)

Fairness == \A r \in Runs : WF_vars(DeepStep(r)) /\ WF_vars(Deliver(r))

FairSpec == Spec /\ Fairness

\* one run with more files to sample than workers (and one with fewer), one requester,
\* one history; file fetches fail or hang, scoring and the cache write fail
InitPool == InitWith([slots |-> 1, files |-> {MinFiles, MaxFiles}, repos |-> {"octo/alpha"}, requesters |-> {Some(7)},
                      infos |-> {RecentRepo}, histories |-> {TwoCommits}, statuses |-> {},
                      storageFails |-> FALSE, netFails |-> FALSE, fetchFails |-> TRUE, sinks |-> {TRUE}, throws |-> {"scoring"},
                      lazy |-> FALSE] @@ WithinRepo)

SpecPool == InitPool /\ [][Next]_vars

\* one run with more files to sample than workers; every fetch succeeds or never settles
InitHang == InitWith([slots |-> 1, files |-> {MaxFiles}, repos |-> {"octo/alpha"}, requesters |-> {Some(7)},
                      infos |-> {RecentRepo}, histories |-> {TwoCommits}, statuses |-> {},
                      storageFails |-> FALSE, netFails |-> FALSE, fetchFails |-> FALSE, sinks |-> {TRUE}, throws |-> {"scoring"},
                      lazy |-> FALSE] @@ WithinRepo)

FairHang == InitHang /\ [][Next]_vars /\ Fairness

\* several runs of one repository, trees of one source file, one kind of failure, a
\* requester that handles its messages once the worker has nothing left to do
InitRuns == InitWith([slots |-> 2, files |-> {1}, repos |-> {"octo/alpha"}, requesters |-> Requesters,
                      infos |-> {RecentRepo}, histories |-> {NoHistory, TwoCommits}, statuses |-> {},
                      storageFails |-> FALSE, netFails |-> FALSE, fetchFails |-> FALSE, sinks |-> {TRUE}, throws |-> {}, lazy |-> TRUE] @@ WithinRepo)

SpecRuns == InitRuns /\ [][Next]_vars

\* two runs of one repository and one history, file fetches that may fail
InitCount == InitWith([slots |-> 2, files |-> {1}, repos |-> {"octo/alpha"}, requesters |-> Requesters,
                       infos |-> {RecentRepo}, histories |-> {TwoCommits}, statuses |-> {},
                       storageFails |-> FALSE, netFails |-> FALSE, fetchFails |-> TRUE, sinks |-> {TRUE}, throws |-> {}, lazy |-> TRUE] @@ WithinRepo)

SpecCount == InitCount /\ [][Next]_vars

\* one run of a repository that is long-established or not, whose tree has an instruction
\* file for an assistant or none, and whose scoring may throw
InitLegacy == InitWith([slots |-> 1, files |-> {0, 1}, repos |-> {"octo/alpha"}, requesters |-> {Some(7)},
                        infos |-> RepoInfos \cup {LegacyRepo}, histories |-> {TwoCommits}, statuses |-> {},
                        storageFails |-> FALSE, netFails |-> FALSE, fetchFails |-> FALSE, sinks |-> {TRUE},
                        throws |-> {"scoring"}, lazy |-> FALSE, configs |-> {0, 1}] @@ WithinRepo)

SpecLegacy == InitLegacy /\ [][Next]_vars

\* requests of the popup and of a tab, which moves within the repository, while time passes
InitHits == InitWith([slots |-> MaxRuns, files |-> {1}, repos |-> {"octo/alpha"}, requesters |-> Requesters,
                      infos |-> {RecentRepo}, histories |-> {TwoCommits}, statuses |-> {},
                      storageFails |-> FALSE, netFails |-> FALSE, fetchFails |-> FALSE, sinks |-> {TRUE},
                      throws |-> {}, lazy |-> TRUE] @@ WithinRepo)

SpecHits == InitHits /\ [][Next]_vars

\* two runs of one repository whose scoring may throw, and a user who purges the cache
\* from the popup
InitStore == InitWith([slots |-> 2, files |-> {1}, repos |-> {"octo/alpha"}, requesters |-> Requesters,
                       infos |-> {RecentRepo}, histories |-> {NoHistory, TwoCommits}, statuses |-> {},
                       storageFails |-> FALSE, netFails |-> FALSE, fetchFails |-> FALSE, sinks |-> {TRUE},
                       throws |-> {"scoring"}, lazy |-> TRUE] @@ WithinRepo)

NextStore ==
    \/ Next
    \/ ClearCacheList
    \/ ClearCacheRemove

SpecStore == InitStore /\ [][NextStore]_vars

\* the tab moves between two repositories at any moment while runs are in progress, with
\* either build of the ANALYSIS_UPDATE listener; one source file, no failing call
AcrossRepos(build) ==
    [home |-> Url("octo/alpha", "code"),
     pages |-> {Url("octo/alpha", "code"), Url("octo/beta", "code")},
     navWhen |-> "any", navs |-> MaxNavs, build |-> build, configs |-> {0}, log |-> FALSE]

\* the tab moves between two repositories and a page of none while requests are under
\* way; requests are answered, rejected (the storage fails), or lost with the worker
InitQueue ==
    InitWith([slots |-> 2, files |-> {1}, repos |-> Repos, requesters |-> {Some(7)},
              infos |-> {RecentRepo}, histories |-> {TwoCommits}, statuses |-> {},
              storageFails |-> TRUE, netFails |-> FALSE, fetchFails |-> FALSE, sinks |-> {TRUE},
              throws |-> {}, lazy |-> TRUE]
             @@ [home |-> Url("octo/alpha", "code"),
                 pages |-> {Url("octo/alpha", "code"), Url("octo/beta", "code"), Url("", "notifications")},
                 navWhen |-> "any", navs |-> 2, build |-> "index.tsx", configs |-> {0}, log |-> TRUE])

NextQueue ==
    \/ Next
    \/ WorkerKilled

SpecQueue == InitQueue /\ [][NextQueue]_vars

InitNav ==
    \E build \in {"part_003", "index.tsx"} :
        InitWith([slots |-> 2, files |-> {1}, repos |-> Repos, requesters |-> {Some(7)},
                  infos |-> {RecentRepo}, histories |-> {TwoCommits}, statuses |-> {},
                  storageFails |-> FALSE, netFails |-> FALSE, fetchFails |-> FALSE, sinks |-> {TRUE},
                  throws |-> {}, lazy |-> FALSE] @@ AcrossRepos(build))

SpecNav == InitNav /\ [][Next]_vars

\* ------------------------------------------------------ the combinator on its own
\* values of the six features, in 1/10000: the thresholds of the escalation rules, and
\* values below 0 and above 1
Levels ==
    [configSignal |-> {0, 10000},
     commitLanguageSignal |-> {0, 3500, 5000},
     commitBurstSignal |-> {-2500, 3500, 4500},
     commentPatternSignal |-> {0, 1400, 2000},
     repetitionSignal |-> {0, 5000, 10000},
     structureUniformitySignal |-> {0, 12500}]

\* evidenceSignals and signalValues: strength 0, 0.11, 0.33 with two strong signals, 1,
\* and values out of range
EvidenceProfiles ==
    { [evidenceSignals |-> 0, signalValues |-> <<>>],
      [evidenceSignals |-> 0, signalValues |-> <<1000>>],
      [evidenceSignals |-> 1, signalValues |-> <<3000, 3000>>],
      [evidenceSignals |-> 6, signalValues |-> <<2500, 9000, 8000, 9000>>],
      [evidenceSignals |-> 7, signalValues |-> <<15000, -1000>>] }

IndicatorProfiles ==
    { [indicatorCount |-> 0, mediumHighIndicatorCount |-> 0],
      [indicatorCount |-> 4, mediumHighIndicatorCount |-> 2],
      [indicatorCount |-> 5, mediumHighIndicatorCount |-> 3],
      [indicatorCount |-> 6, mediumHighIndicatorCount |-> 5] }

ScoringInputs ==
    { [configSignal |-> a, commitLanguageSignal |-> b, commitBurstSignal |-> c,
       commentPatternSignal |-> d, repetitionSignal |-> e, structureUniformitySignal |-> g,
       evidenceSignals |-> ev.evidenceSignals, signalValues |-> ev.signalValues,
       indicatorCount |-> ind.indicatorCount,
       mediumHighIndicatorCount |-> ind.mediumHighIndicatorCount] :
         a \in Levels.configSignal, b \in Levels.commitLanguageSignal,
         c \in Levels.commitBurstSignal, d \in Levels.commentPatternSignal,
         e \in Levels.repetitionSignal, g \in Levels.structureUniformitySignal,
         ev \in EvidenceProfiles, ind \in IndicatorProfiles }

\* a caller holds a features record; no run is in progress
InitScore ==
    /\ limits = [slots |-> 0, files |-> {}, repos |-> {}, requesters |-> {}, infos |-> {},
                 histories |-> {}, statuses |-> {}, storageFails |-> FALSE, netFails |-> FALSE,
                 fetchFails |-> FALSE, sinks |-> {}, throws |-> {}, lazy |-> FALSE] @@ WithinRepo
    /\ now = 0
    /\ ticks = 0
    /\ cache = InstalledStorage
    /\ popup = OpenedPopup
    /\ runs = [r \in Runs |-> IdleRun]
    /\ page = LoadedPage(limits.home)
    /\ \E f \in ScoringInputs : calc = [NoCalc EXCEPT !.features = Some(f)]

\* calculateSlopScore(features)
Score ==
    /\ calc.features # None /\ calc.result = None
    /\ calc' = [calc EXCEPT !.result = Some(calculateSlopScore(calc.features[1])), !.calls = @ + 1]
    /\ UNCHANGED <<limits, now, ticks, cache, runs, page, popup>>

\* a later call with the same features record
ScoreAgain ==
    /\ calc.result # None /\ calc.again = None /\ calc.before = None
    /\ \E d \in {0} \cup Delays : now' = now + d
    /\ calc' = [calc EXCEPT !.again = Some(calculateSlopScore(calc.features[1])), !.calls = @ + 1]
    /\ UNCHANGED <<limits, ticks, cache, runs, page, popup>>

\* a call with a record that differs in one feature, which is larger
ScoreRaised(feature, v) ==
    /\ calc.result # None /\ calc.again = None /\ calc.before = None
    /\ v > calc.features[1][feature]
    /\ LET raised == [calc.features[1] EXCEPT ![feature] = v]
       IN calc' = [calc EXCEPT !.features = Some(raised),
                               !.result = Some(calculateSlopScore(raised)),
                               !.before = Some([features |-> calc.features[1], result |-> calc.result[1]]),
                               !.calls = @ + 1]
    /\ UNCHANGED <<limits, now, ticks, cache, runs, page, popup>>

NextScore ==
    \/ Score
    \/ ScoreAgain
    \/ \E i \in 1..6 : \E v \in Levels[Features[i]] : ScoreRaised(Features[i], v)

SpecScore == InitScore /\ [][NextScore]_vars

\* ------------------------------------- the provisional score on its own
\* n indicators of the commit analyzer, the first k of them of high severity
IndicatorList(n, k) ==
    [i \in 1..n |-> Indicator("AI Commit Language", <<"message", ToString(i)>>,
                               IF i <= k THEN "high" ELSE "low")]

\* results of the commit analyzer: signals at the thresholds of the escalation rules, at
\* 1 and above it, with none to six indicators
CommitResults ==
    { [aiSignal |-> a, burstSignal |-> b, bulkSignal |-> c, indicators |-> IndicatorList(ind[1], ind[2])] :
         a \in {0, 3500, 5000, 10000, 12000}, b \in {0, 3500, 10000}, c \in {0, 5000, 10000, 15000},
         ind \in {<<0, 0>>, <<4, 2>>, <<5, 3>>, <<6, 5>>} }

\* handleAnalyzeRepo holds the result of the commit analyzer and is about to score it
InitProvisional ==
    /\ limits = [slots |-> 0, files |-> {}, repos |-> {}, requesters |-> {}, infos |-> {},
                 histories |-> {}, statuses |-> {}, storageFails |-> FALSE, netFails |-> FALSE,
                 fetchFails |-> FALSE, sinks |-> {}, throws |-> {}, lazy |-> FALSE] @@ WithinRepo
    /\ now = 0
    /\ ticks = 0
    /\ cache = InstalledStorage
    /\ popup = OpenedPopup
    /\ runs = [r \in Runs |-> IdleRun]
    /\ page = LoadedPage(limits.home)
    /\ \E commitResult \in CommitResults :
          calc = [NoCalc EXCEPT !.features = Some(provisionalFeatures(commitResult))]

NextProvisional ==
    \/ Score
    \/ ScoreAgain

SpecProvisional == InitProvisional /\ [][NextProvisional]_vars

\* ---------------------------------------- the detectors and helpers on their own
\* a call of one of them: its name, its arguments and, once it has returned, its result
Call(op, input) == [op |-> op, input |-> input, output |-> None, again |-> None]

\* repositories of several ages and star counts (created_at 0: no date), commit results,
\* and what the deep pass has counted when it comes to line 252
LegacyInputs ==
    { [repoInfo |-> [default_branch |-> "main", created_at |-> y, stargazers_count |-> st],
       commitResult |-> cr, configResult |-> cfg.configResult, configSignalRaw |-> cfg.configSignalRaw,
       totalMatchedCommentLines |-> l, codePatternTotalMatches |-> m] :
         y \in {0, 2015, 2019, 2020}, st \in {0, 149, 150},
         cr \in {analyzeCommitMessages(NoHistory), analyzeCommitMessages(TwoCommits),
                 [aiSignal |-> 10000, burstSignal |-> 9000, bulkSignal |-> 0, indicators |-> <<>>]},
         cfg \in {[configResult |-> detectConfigFiles(<<>>), configSignalRaw |-> 0],
                  [configResult |-> detectConfigFiles(<<>>), configSignalRaw |-> 1800],
                  [configResult |-> detectConfigFiles(<<>>), configSignalRaw |-> 9000],
                  [configResult |-> detectConfigFiles(<<FileNode(<< <<".cursorrules", "">> >>, "file")>>),
                   configSignalRaw |-> 6500]},
         l \in {0, 5, 6}, m \in {0, 9, 10} }

\* counts, among them negative ones, as numerators, denominators, values and ends of a range
Counts == (0 - MaxCount)..MaxCount

RatioInputs == [numerator : Counts, denominator : Counts]

ScaleInputs == [value : Counts, min : Counts, max : Counts]

Tokens == {"export", "function", "return"}

SimilarityInputs == [a : SUBSET Tokens, b : SUBSET Tokens]

\* nodes of a tree: config files by name, by the end of their path and by the end of
\* their name, a config directory, and nodes that are none
TreeNodes ==
    { FileNode(<< <<".cursorrules", "">> >>, "file"),
      FileNode(<< <<"README", "md">> >>, "file"),
      FileNode(<< <<"docs", "">>, <<"CLAUDE", "md">> >>, "file"),
      FileNode(<< <<".cursorrules", "", "my">> >>, "file"),
      FileNode(<< <<".github", "", "x">>, <<"instructions", "md">> >>, "file"),
      FileNode(<< <<"src", "">>, <<".cursor", "">>, <<"rules", "">> >>, "dir"),
      FileNode(<< <<".github", "">>, <<"README", "md">> >>, "file"),
      FileNode(<< <<".cursor", "">>, <<"rules", "">>, <<"extra", "md">> >>, "file") }

NodeLists == UNION {[1..n -> TreeNodes] : n \in 0..MaxNodes}

\* the file names found in the directories of a tree, and the sets of them a directory holds
LeafNames == {<<"index", "ts">>, <<"types", "ts">>, <<"a|b", "ts">>}

Shapes == (SUBSET LeafNames) \ {{}}

RECURSIVE SeqOf(_)
SeqOf(S) == IF S = {} THEN <<>> ELSE LET x == CHOOSE y \in S : TRUE IN <<x>> \o SeqOf(S \ {x})

RECURSIVE Flatten(_)
Flatten(lists) == IF lists = <<>> THEN <<>> ELSE Head(lists) \o Flatten(Tail(lists))

\* the k-th directory of the shape numbered s, and the nodes of its files
DirectoryOf(s, k, names) ==
    LET dir == << <<ToString(s), "">>, <<ToString(k), "">> >>
    IN << FileNode(dir, "dir") >> \o [i \in 1..Len(names) |-> FileNode(Append(dir, names[i]), "file")]

\* a tree with shapeCount[sh] directories of every shape sh
TreeWith(shapeCount) ==
    LET shapeList == SeqOf(Shapes)
    IN Flatten([s \in 1..Len(shapeList) |->
                   Flatten([k \in 1..shapeCount[shapeList[s]] |-> DirectoryOf(s, k, SeqOf(shapeList[s]))])])

\* how many directories have each shape: none, or about as many as make a shape repeat;
\* and the tree of 4 directories that hold index.ts and types.ts
ShapeCounts ==
    [Shapes -> {0, MaxDirs - 1, MaxDirs}]
    \cup {[sh \in Shapes |-> IF sh = {<<"index", "ts">>, <<"types", "ts">>} THEN 4 ELSE 0]}

\* fetched files by the tokens their text has after normalisation (none for a text
\* without a word of 3 characters)
Samples == {[path |-> SourceFile(0).path, content |-> [tokens |-> t]] : t \in SUBSET Tokens}

SampleLists == UNION {[1..n -> Samples] : n \in 0..MaxSamples}

\* the kinds of files for the sampler: with a priority word or without, at the root or not
FileKinds == {"root", "nested", "root-priority", "nested-priority"}

\* the i-th file of a tree, of a kind; its number keeps the paths apart
KindFile(kind, i) ==
    CASE kind = "root" -> FileNode(<< <<ToString(i), "ts">> >>, "file")
      [] kind = "nested" -> FileNode(<< <<"src", "">>, <<ToString(i), "ts">> >>, "file")
      [] kind = "root-priority" -> FileNode(<< <<"README", "md", ToString(i)>> >>, "file")
      [] kind = "nested-priority" -> FileNode(<< <<"templates", "">>, <<ToString(i), "ts">> >>, "file")

FilesOfKinds(kinds) == [i \in 1..Len(kinds) |-> KindFile(kinds[i], i)]

\* long trees: the kinds in turn, one kind throughout, and one kind with a few of another
LongTrees ==
    LET turn == <<"root", "nested", "root-priority", "nested-priority">>
    IN {[i \in 1..n |-> turn[(i % 4) + 1]] : n \in {MAX_SAMPLED_FILES, MAX_SAMPLED_FILES + 1, 40}}
       \cup {[i \in 1..(MAX_SAMPLED_FILES + 2) |-> k] : k \in FileKinds}
       \cup {[i \in 1..(MAX_SAMPLED_FILES + 2) |-> IF i % 10 = 0 THEN k ELSE m] : k, m \in FileKinds}

\* every short tree for a cap of 4, and the long trees for the cap of the program
SamplerInputs ==
    {[files |-> FilesOfKinds(kinds), maxFiles |-> 4] : kinds \in UNION {[1..n -> FileKinds] : n \in 0..MaxTree}}
    \cup {[files |-> FilesOfKinds(kinds), maxFiles |-> MAX_SAMPLED_FILES] : kinds \in LongTrees}

DetectorCalls ==
    {Call("attenuateLegacy", i) : i \in LegacyInputs}
    \cup {Call("pickSampleFiles", i) : i \in SamplerInputs}
    \cup {Call("detectRepetition", i) : i \in SampleLists}
    \cup {Call("detectBoilerplateStructure", [shapeCount |-> sc, files |-> TreeWith(sc)]) : sc \in ShapeCounts}
    \cup {Call("detectConfigFiles", i) : i \in NodeLists}
    \cup {Call("similarityCoefficient", i) : i \in SimilarityInputs}
    \cup {Call("ratio", i) : i \in RatioInputs}
    \cup {Call("boundedScale", i) : i \in ScaleInputs}

\* a caller is about to make one call; no run is in progress
InitDetect ==
    /\ limits = [slots |-> 0, files |-> {}, repos |-> {}, requesters |-> {}, infos |-> {},
                 histories |-> {}, statuses |-> {}, storageFails |-> FALSE, netFails |-> FALSE,
                 fetchFails |-> FALSE, sinks |-> {}, throws |-> {}, lazy |-> FALSE] @@ WithinRepo
    /\ now = 0
    /\ ticks = 0
    /\ cache = InstalledStorage
    /\ popup = OpenedPopup
    /\ runs = [r \in Runs |-> IdleRun]
    /\ page = LoadedPage(limits.home)
    /\ calc \in DetectorCalls

Returns(op, result) ==
    /\ calc.op = op /\ calc.output = None
    /\ calc' = [calc EXCEPT !.output = Some(result)]
    /\ UNCHANGED <<limits, now, ticks, cache, runs, page, popup>>

\* runDeepAnalysis, lines 252-261
Attenuate ==
    /\ calc.op = "attenuateLegacy"
    /\ LET i == calc.input
       IN Returns("attenuateLegacy",
                  attenuateLegacy(i.repoInfo, i.commitResult, i.configSignalRaw, i.totalMatchedCommentLines,
                                  i.codePatternTotalMatches, i.configResult))

\* ratio(numerator, denominator)
Ratio == Returns("ratio", ratio(calc.input.numerator, calc.input.denominator))

\* boundedScale(value, min, max)
BoundedScale == Returns("boundedScale", boundedScale(calc.input.value, calc.input.min, calc.input.max))

\* similarityCoefficient(a, b)
Similarity == Returns("similarityCoefficient", similarityCoefficient(calc.input.a, calc.input.b))

\* detectConfigFiles(files)
DetectConfig == Returns("detectConfigFiles", detectConfigFiles(calc.input))

\* detectBoilerplateStructure(files)
DetectStructure == Returns("detectBoilerplateStructure", detectBoilerplateStructure(calc.input.files))

\* detectRepetition(samples)
DetectRepetition == Returns("detectRepetition", detectRepetition(calc.input))

\* pickSampleFiles(files, maxFiles)
PickSamples == Returns("pickSampleFiles", pickSampleFiles(calc.input.files, calc.input.maxFiles))

\* a later call with the same list
PickSamplesAgain ==
    /\ calc.op = "pickSampleFiles" /\ calc.output # None /\ calc.again = None
    /\ \E d \in Delays : now' = now + d
    /\ calc' = [calc EXCEPT !.again = Some(pickSampleFiles(calc.input.files, calc.input.maxFiles))]
    /\ UNCHANGED <<limits, ticks, cache, runs, page, popup>>

NextDetect ==
    \/ Attenuate
    \/ PickSamples
    \/ PickSamplesAgain
    \/ DetectRepetition
    \/ DetectStructure
    \/ DetectConfig
    \/ Similarity
    \/ Ratio
    \/ BoundedScale

SpecDetect == InitDetect /\ [][NextDetect]_vars

\* ======================================================================= claims
HasProvisional(u) == u.provisional # None

\* runDeepAnalysis has returned, or has thrown into its catch block
DeepPassOver(u) == u.pc = "done" \/ u.phase = "catch"

IsDegraded(analysis) ==
    \E i \in 1..Len(analysis.indicators) : analysis.indicators[i].type = "Deep Analysis Incomplete"

\* C1: a run that returned a provisional record publishes exactly one final-stage record:
\* never more than one, never one of another stage, and one once the deep pass has
\* completed or thrown; a run that returned no provisional record publishes none.
C1_ExactlyOneFinal ==
    \A r \in Runs :
        LET u == runs[r]
        IN /\ Len(u.pubs) <= 1
           /\ \A i \in 1..Len(u.pubs) : u.pubs[i].stage = "final" /\ u.pubs[i].repoId = u.repoId
           /\ (HasProvisional(u) /\ DeepPassOver(u)) => Len(u.pubs) = 1
           /\ ~HasProvisional(u) => u.pubs = <<>>

\* a full final record was computed, its cache write failed, and the degraded record was
\* the one publication of the run
C1_Witness ==
    \E r \in Runs :
        /\ runs[r].pc = "done"
        /\ runs[r].failedAt = "cacheWrite"
        /\ Len(runs[r].pubs) = 1
        /\ IsDegraded(runs[r].pubs[1])

HasHungFetch(u) == u.pool # None /\ Hung(u.pool[1]) # {}

\* C3: no run stays provisional forever: when every request of the deep pass settles
\* (successfully or not) and every continuation runs, a run that returned a provisional
\* record eventually publishes a final-stage record, wherever the deep pass threw; the
\* only runs that never publish are those with a file fetch that never settles.
C3_EventuallyFinal ==
    \A r \in Runs :
        HasProvisional(runs[r]) ~>
            ((runs[r].pubs # <<>> /\ runs[r].pubs[1].stage = "final") \/ HasHungFetch(runs[r]))

\* the deep pass threw at its first step, the tree fetch, and a final record is out
C3_Witness ==
    \E r \in Runs :
        /\ runs[r].failedAt = "tree"
        /\ runs[r].pc = "done"
        /\ runs[r].pubs # <<>>
        /\ runs[r].pubs[1].stage = "final"

IndicatorSet(analysis) == {analysis.indicators[i] : i \in 1..Len(analysis.indicators)}

\* C4: the record published from the catch block is the provisional record relabelled:
\* stage 'final', confidence 'low', the same repoId, slopScore and scoreBreakdown, and
\* as indicators the provisional ones plus exactly one 'Deep Analysis Incomplete'.
C4_DegradedIsRelabelledProvisional ==
    \A r \in Runs :
        LET u == runs[r]
        IN (u.phase = "catch" /\ u.pubs # <<>>) =>
              LET f == u.pubs[Len(u.pubs)]
                  p == u.response[1].data
              IN /\ p.stage = "provisional"
                 /\ f.stage = "final"
                 /\ f.confidence = "low"
                 /\ f.repoId = p.repoId
                 /\ f.slopScore = p.slopScore
                 /\ f.scoreBreakdown = p.scoreBreakdown
                 /\ IndicatorSet(f) = IndicatorSet(p) \cup {DeepAnalysisIncomplete}
                 /\ Cardinality({i \in 1..Len(f.indicators) :
                                    f.indicators[i].type = "Deep Analysis Incomplete"}) = 1

\* scoring threw for a run whose provisional record had indicators and medium confidence
C4_Witness ==
    \E r \in Runs :
        /\ runs[r].failedAt = "scoring"
        /\ runs[r].pubs # <<>>
        /\ runs[r].provisional[1].confidence = "medium"
        /\ runs[r].provisional[1].indicators # <<>>
        /\ runs[r].provisional[1].slopScore > 0

\* what the cache holds for the repository, branch and latest commit of a run
KeyOf(u) ==
    <<u.repoId, u.repoInfo[1].default_branch,
      IF u.commits = <<>> THEN "no-commits" ELSE u.commits[1].sha>>

FreshEntry(u) == cache[StorageKey(KeyOf(u))] # None /\ now - cache[StorageKey(KeyOf(u))][1].timestamp < 3600000

\* the step in which run r learns what the cache holds
C5_Decision(r) ==
    LET u == runs[r]
        v == runs'[r]
    IN (u.pc = "cacheGet" /\ v.pc \notin {"cacheGet", "rejected"}) =>
          /\ v.pc = "hit" <=> FreshEntry(u)
          /\ v.pc = "hit" =>
                /\ v.response # None
                /\ v.response[1].success
                /\ v.response[1].data.cache.isCached
                /\ [v.response[1].data EXCEPT !.cache = cache[StorageKey(KeyOf(u))][1].cache] = cache[StorageKey(KeyOf(u))][1]
                /\ v.requestCount = u.requestCount
          /\ v.pc # "hit" =>
                /\ v.pc = "tree"
                /\ HasProvisional(v)
                /\ v.response[1].data.stage = "provisional"
                /\ ~v.response[1].data.cache.isCached

\* a run answered from the cache has fetched no tree and no file, ran no deep pass and
\* published nothing, and stays so
C5_HitIsQuiet ==
    \A r \in Runs :
        runs[r].pc = "hit" =>
            /\ runs[r].requestCount = 2
            /\ runs[r].files = <<>>
            /\ runs[r].pool = None
            /\ runs[r].phase = "none"
            /\ ~HasProvisional(runs[r])
            /\ runs[r].final = None
            /\ runs[r].pubs = <<>>
            /\ runs[r].sinkLog = <<>>

\* C5: a request is answered with the cached record marked isCached = true exactly when
\* a record is stored under owner/repo:defaultBranch:latestCommitSha ('no-commits' for an
\* empty history) and is younger than 3,600,000 ms; that run fetches no tree and no file,
\* runs no deep pass and publishes nothing; a record aged 3,600,000 ms or more is never
\* returned, a full run is performed instead.
C5_CacheHit ==
    /\ []C5_HitIsQuiet
    /\ [][\A r \in Runs : C5_Decision(r) /\ (runs[r].pc = "hit" => runs'[r].pc = "hit")]_vars

\* a record aged one millisecond less than the time-to-live was returned
C5_Witness ==
    \E r \in Runs :
        /\ runs[r].pc = "hit"
        /\ now - runs[r].response[1].data.timestamp = CACHE_TTL_MS - 1

Categories == {"RATE_LIMIT", "AUTH_REQUIRED", "API_ERROR", "NETWORK_ERROR"}

\* the state of a run that was rejected before the cache was consulted
C6_Rejected ==
    \A r \in Runs :
        LET u == runs[r]
        IN (u.thrown # None /\ u.failedAt \in {"repoInfo", "commits"}) =>
              /\ u.pc = "rejected"
              /\ ~HasProvisional(u)
              /\ u.phase = "none"
              /\ u.pool = None
              /\ u.final = None
              /\ u.pubs = <<>>
              /\ u.sinkLog = <<>>
              /\ u.response # None
              /\ ~u.response[1].success
              /\ u.response[1].error[1] \in Categories
              /\ \A i \in 1..Len(u.got \o u.inbox) : (u.got \o u.inbox)[i] = Message("response", u.response[1])

\* C6: when fetching the repository info or the commit history fails, the request is
\* rejected: no provisional record, no deep pass, nothing published, nothing written to
\* the cache; the caller gets { success: false } with a categorised error string.
C6_EarlyFailureRejects ==
    /\ []C6_Rejected
    /\ [][\A r \in Runs :
             (runs'[r] # runs[r] /\ runs'[r].pc = "rejected") =>
                 (cache' = cache /\ (runs[r].pc = "rejected" => runs'[r].response = runs[r].response))]_vars

\* the commit-history request failed after the repository info had been fetched, and the
\* requester has handled the failure response
C6_Witness ==
    \E r \in Runs :
        /\ runs[r].failedAt = "commits"
        /\ runs[r].repoInfo # None
        /\ Len(runs[r].got) = 1
        /\ ~runs[r].got[1].payload.success

\* C7: every failed request is answered with an error string of one of four categories:
\* RATE_LIMIT for an API error with status 403, AUTH_REQUIRED for status 401 or 404,
\* API_ERROR for any other API status, NETWORK_ERROR for an error that is no API error.
C7_ErrorCategories ==
    \A r \in Runs :
        LET u == runs[r]
        IN /\ u.pc = "rejected" <=> u.thrown # None
           /\ (u.response # None /\ ~u.response[1].success) <=> u.thrown # None
           /\ u.thrown # None =>
                 LET e == u.thrown[1]
                     category == u.response[1].error[1]
                 IN /\ category \in Categories
                    /\ category = "RATE_LIMIT" <=> (e.kind = "GitHubApiError" /\ e.status = 403)
                    /\ category = "AUTH_REQUIRED" <=> (e.kind = "GitHubApiError" /\ e.status \in {401, 404})
                    /\ category = "API_ERROR" <=> (e.kind = "GitHubApiError" /\ e.status \notin {401, 403, 404})
                    /\ category = "NETWORK_ERROR" <=> e.kind # "GitHubApiError"

\* GitHub answered 404 and the caller got AUTH_REQUIRED
C7_Witness ==
    \E r \in Runs :
        /\ runs[r].thrown # None
        /\ runs[r].thrown[1].status = 404
        /\ runs[r].response[1].error[1] = "AUTH_REQUIRED"

HasIndicator(analysis, type) ==
    \E i \in 1..Len(analysis.indicators) : analysis.indicators[i].type = type

\* the items of a pool whose content was fetched
Fetched(pool) == {i \in 1..Len(pool.items) : pool.output[i].st = "sample"}

\* the items of a pool whose fetch failed
FailedFetches(pool) == {i \in 1..Len(pool.items) : pool.output[i].st = "null"}

FetchedNames(pool) == {pool.items[i].name[1] : i \in Fetched(pool)}

\* C8: a failed file fetch never fails the deep pass, not even when every fetch fails:
\* the catch block is entered only from the tree fetch, the detectors, the scoring or
\* the cache write; the final record is not degraded, its diagnostics.sampledFiles is the
\* number of fetches that succeeded, and what the comment and code-pattern detectors
\* found in a file shows in it exactly when that file was fetched.
C8_FileFetchFailuresTolerated ==
    \A r \in Runs :
        LET u == runs[r]
        IN /\ u.phase = "catch" => u.failedAt \in {"tree", "detectors", "scoring", "cacheWrite"}
           /\ u.final # None =>
                 LET f == u.final[1]
                     pool == u.pool[1]
                 IN /\ f.stage = "final"
                    /\ ~IsDegraded(f)
                    /\ Fetched(pool) \cup FailedFetches(pool) = 1..Len(pool.items)
                    /\ f.diagnostics.sampledFiles = Cardinality(Fetched(pool))
                    /\ HasIndicator(f, "Prompt-like Comment Pattern") <=> "1" \in FetchedNames(pool)
                    /\ HasIndicator(f, "AI Boilerplate Trace") <=> "2" \in FetchedNames(pool)
           /\ (u.phase = "try" /\ u.pubs # <<>>) => (u.final # None /\ u.pubs = <<u.final[1]>>)

\* every fetch of a run with five sampled files failed, and the full final record was
\* published
C8_Witness ==
    \E r \in Runs :
        /\ runs[r].phase = "try"
        /\ runs[r].pubs # <<>>
        /\ Len(runs[r].pool[1].items) = 5
        /\ FailedFetches(runs[r].pool[1]) = 1..5
        /\ runs[r].pubs[1].diagnostics.sampledFiles = 0

\* requests started and not yet settled: items taken minus items with a result
Unsettled(pool) == pool.index - Cardinality(Fetched(pool) \cup FailedFetches(pool))

\* C9: at no point are more than 4 file fetches of a run in flight, and a run with fewer
\* than 4 files to sample starts exactly as many workers as files.
C9_BoundedConcurrency ==
    \A r \in Runs :
        runs[r].pool # None =>
            LET pool == runs[r].pool[1]
            IN /\ Unsettled(pool) <= 4
               /\ Cardinality(InFlight(pool)) = Unsettled(pool)
               /\ Len(pool.items) < 4 => Len(pool.workers) = Len(pool.items)
               /\ Len(pool.items) >= 4 => Len(pool.workers) = 4
               /\ \A w1, w2 \in InFlight(pool) : pool.workers[w1].cur = pool.workers[w2].cur => w1 = w2

\* five files to sample: one fetch has settled, its worker took the fifth, four in flight
C9_Witness ==
    \E r \in Runs :
        /\ runs[r].pool # None
        /\ Len(runs[r].pool[1].items) = 5
        /\ runs[r].pool[1].index = 5
        /\ Unsettled(runs[r].pool[1]) = 4

\* the items held by workers whose request never settles
HeldByHung(pool) == {pool.workers[w].cur : w \in Hung(pool)}

OthersProcessed(pool) ==
    \A i \in 1..Len(pool.items) : pool.output[i].st # "unset" \/ i \in HeldByHung(pool)

ProvisionalDelivered(u) ==
    \E j \in 1..Len(u.got) : /\ u.got[j].kind = "response"
                             /\ u.got[j].payload.success
                             /\ u.got[j].payload.data.stage = "provisional"

\* C10: a file fetch that never settles blocks only the worker that made it: no other
\* worker returns while items remain, every item not held by a hung worker is eventually
\* processed, and the provisional response of the run is delivered all the same.
C10_HungFetchBlocksOneWorker ==
    /\ [](\A r \in Runs :
            HasHungFetch(runs[r]) =>
                LET pool == runs[r].pool[1]
                IN /\ \A w \in 1..Len(pool.workers) :
                         pool.workers[w].st = "done" => pool.index = Len(pool.items)
                   /\ runs[r].response # None
                   /\ runs[r].response[1].success)
    /\ \A r \in Runs :
          HasHungFetch(runs[r]) ~>
              (runs[r].pool # None /\ OthersProcessed(runs[r].pool[1]) /\ ProvisionalDelivered(runs[r]))

\* the first of five fetches hangs; the other three workers have processed the four
\* other items and the requester has the provisional response
C10_Witness ==
    \E r \in Runs :
        /\ HasHungFetch(runs[r])
        /\ Len(runs[r].pool[1].items) = 5
        /\ HeldByHung(runs[r].pool[1]) = {1}
        /\ OthersProcessed(runs[r].pool[1])
        /\ ProvisionalDelivered(runs[r])

\* the messages the requester has been sent, handled or not, in the order of sending
Sent(u) == u.got \o u.inbox

\* the record handleAnalyzeRepo returned is the one the requester was answered with
AnsweredWithProvisional(u) ==
    /\ u.response = Some([success |-> TRUE, data |-> u.provisional[1]])
    /\ u.provisional[1].stage = "provisional"
    /\ Sent(u) # <<>>
    /\ Sent(u)[1] = Message("response", [success |-> TRUE, data |-> u.provisional[1]])

\* C11: the deep pass, whether it succeeds or fails, never modifies the provisional record
\* handleAnalyzeRepo returned: once the record exists it is the successful response of
\* the run, its stage is 'provisional', and no later step changes the record (slopScore,
\* confidence, indicators, scoreBreakdown, diagnostics) or the response, so a deep-pass
\* failure never turns the response into an error.
C11_ProvisionalUntouched ==
    /\ [](\A r \in Runs : HasProvisional(runs[r]) => AnsweredWithProvisional(runs[r]))
    /\ [][\A r \in Runs : HasProvisional(runs[r]) =>
                /\ runs'[r].provisional = runs[r].provisional
                /\ runs'[r].response = runs[r].response]_vars

\* a deep pass has failed and published the degraded record with confidence 'low'; the
\* record returned before still says 'medium'
C11_Witness ==
    \E r \in Runs :
        /\ runs[r].phase = "catch" /\ runs[r].pc = "done" /\ runs[r].failedAt = "detectors"
        /\ runs[r].pubs # <<>> /\ runs[r].pubs[1].confidence = "low"
        /\ runs[r].response[1].success
        /\ runs[r].response[1].data.confidence = "medium"
        /\ runs[r].response[1].data.stage = "provisional"

\* the sinks publishAnalysisUpdate has tried so far, in order
SinksTried(u) == [i \in 1..Len(u.sinkLog) |-> u.sinkLog[i][1]]

\* the sinks one publication goes to
SinksOf(u) == IF u.tabId # None THEN <<"tab", "broadcast">> ELSE <<"broadcast">>

Publishing(u) == u.pc \in {"pubTab", "pubBroadcast"}

\* C12: publishAnalysisUpdate is best-effort over two sinks: with a sender tab the record
\* goes to the tab and then to the broadcast, without one only to the broadcast; the
\* broadcast is sent whatever became of the tab message; a failed broadcast is no error;
\* and no failed delivery reaches the deep pass: the record published stays the one
\* record of the run, a full record is not followed by the degraded one, nothing is sent
\* twice.
C12_BestEffortPublication ==
    \A r \in Runs :
        LET u == runs[r]
        IN /\ u.pubs = <<>> => u.sinkLog = <<>>
           /\ u.pubs # <<>> =>
                /\ Len(u.pubs) = 1
                /\ Publishing(u) \/ u.pc = "done"
                /\ u.pc = "pubTab" => u.tabId # None /\ u.sinkLog = <<>>
                /\ u.pc = "pubBroadcast" => SinksTried(u) = SubSeq(SinksOf(u), 1, Len(SinksOf(u)) - 1)
                /\ u.pc = "done" => SinksTried(u) = SinksOf(u)
                /\ u.phase \in {"try", "catch"}
                /\ u.phase = "try" <=> ~IsDegraded(u.pubs[1])
                /\ u.phase = "try" <=> u.failedAt = "none"

\* a full record went to a tab that did not take it and to a broadcast nobody heard; the
\* run ended in its try block all the same
C12_Witness ==
    \E r \in Runs :
        /\ runs[r].pc = "done" /\ runs[r].phase = "try" /\ runs[r].tabId = Some(7)
        /\ runs[r].sinkLog = << <<"tab", FALSE>>, <<"broadcast", FALSE>> >>
        /\ Len(runs[r].pubs) = 1 /\ ~IsDegraded(runs[r].pubs[1])
        /\ runs[r].got \o runs[r].inbox = <<Message("response", runs[r].response[1])>>

\* a message that carries an analysis record
IsResult(msg) == msg.kind = "update" \/ msg.payload.success

\* the content script has processed a move of the tab to a location that does not show
\* the repository, and the tab is still there
MovedAwayFrom(repoId) ==
    page.handled /\ page.url = page.lastUrl /\ getCurrentRepo(page.url) # Some(repoId)

\* the content script handles the oldest message of run r in this step
Handles(r) == runs[r].tabId # None /\ runs[r].inbox # <<>> /\ runs'[r].got # runs[r].got

\* the message that run r's requester handles next answers its request while a call of
\* analyzeRepo is queued, and the location shows a repository: the call is made as the
\* last thing of handling the answer, and shows the loading badge for that repository
AnswersQueuedCall(r) ==
    /\ Head(runs[r].inbox).kind = "response" /\ page.queuedAnalyze
    /\ getCurrentRepo(page.url) # None

\* C13: a result (ANALYZE_REPO response or ANALYSIS_UPDATE message) for repository A that
\* reaches the content script after it has processed a navigation to a different
\* repository is discarded: the badge and the tracked repository stay as they are (where
\* a queued call follows the answer, they are those of that call for the present
\* location, never those of the result); and a badge with a score always shows a record
\* of the repository the content script tracks.
C13_StaleResultDiscarded ==
    /\ [](page.badge.label = "score" => page.currentRepoId = Some(page.badge.repoId))
    /\ [][\A r \in Runs :
              (Handles(r) /\ IsResult(Head(runs[r].inbox)) /\ MovedAwayFrom(runs[r].repoId)) =>
                  /\ page'.discarded = Append(page.discarded, runs[r].repoId)
                  /\ IF AnswersQueuedCall(r)
                     THEN /\ page'.badge = [NoBadge EXCEPT !.label = "Analyzing..."]
                          /\ page'.currentRepoId = getCurrentRepo(page.url)
                     ELSE /\ page'.badge = page.badge
                          /\ page'.currentRepoId = page.currentRepoId]_vars

\* the response and the update for octo/alpha were both discarded (the tab had moved to
\* octo/beta while the request was under way), and the badge shows octo/beta
C13_Witness ==
    \E r \in Runs :
        /\ runs[r].repoId = "octo/alpha" /\ runs[r].tabId = Some(7)
        /\ Len(runs[r].got) = 2 /\ runs[r].got[2].kind = "update"
        /\ page.discarded = <<"octo/alpha", "octo/alpha">>
        /\ page.handled /\ getCurrentRepo(page.url) = Some("octo/beta")
        /\ page.badge.label = "score" /\ page.badge.repoId = "octo/beta"

\* evidence strength of a features record, in 1/600000 (0.2 is 120000)
Strength(f) == deriveEvidenceStrength(f.evidenceSignals, f.signalValues)

\* rawScore of a result, in hundredths of a point
RawScore(result) == SumSeq([i \in 1..6 |-> result.contributions[i].contribution])

StrongSignals(f) == Cardinality({i \in 1..Len(f.signalValues) : f.signalValues[i] >= 2500})

Dampened(f) == Strength(f) < 120000

\* a second call was made with one feature raised, neither call in the dampener regime
RaisedUndampened ==
    /\ calc.before # None
    /\ ~Dampened(calc.before[1].features) /\ ~Dampened(calc.features[1])

\* the raise took rawScore from below 25, where two strong signals add 12 points, to 25
\* or more, where they add nothing
LostBoost ==
    /\ RawScore(calc.before[1].result) < 2500
    /\ StrongSignals(calc.before[1].features) >= 2
    /\ RawScore(calc.result[1]) >= 2500

\* C14: calculateSlopScore is monotone: of two inputs that differ in one feature value,
\* neither in the dampener regime, the one with the larger value has an overall at least
\* as large.
C14_Monotone ==
    RaisedUndampened => calc.result[1].overall >= calc.before[1].result.overall

\* repetition raised from 0.5 to 1 with config at 1: rawScore 23.5 becomes 31, overall 36
\* becomes 31
C14_FailingInput ==
    /\ RaisedUndampened /\ LostBoost
    /\ calc.before[1].features.repetitionSignal = 5000 /\ calc.features[1].repetitionSignal = 10000
    /\ RawScore(calc.before[1].result) = 2350 /\ calc.before[1].result.overall = 36
    /\ RawScore(calc.result[1]) = 3100 /\ calc.result[1].overall = 31

Scored == calc.result # None

\* the rules of the chain whose condition holds for the scored record
FloorsInForce ==
    LET rules == floorRules(calc.features[1], RawScore(calc.result[1]), Strength(calc.features[1]))
    IN {rules[i].floor : i \in {j \in 1..Len(rules) : rules[j].when}}

\* C15: whenever evidenceStrength < 0.2 overall is at most 40, even when the condition of
\* an escalation floor (56, 62) holds in the same call: the dampener comes after every
\* floor rule.
C15_DampenerCapsLast ==
    (Scored /\ Dampened(calc.features[1])) => calc.result[1].overall <= 40

\* evidenceStrength 0.11; the floors 42, 56 and 62 are in force on a rawScore below 40;
\* overall is 40
C15_Witness ==
    /\ Scored /\ Dampened(calc.features[1])
    /\ Strength(calc.features[1]) > 0
    /\ {4200, 5600, 6200} \subseteq FloorsInForce
    /\ RawScore(calc.result[1]) < 4000
    /\ calc.result[1].overall = 40

\* C16: escalation rules 1 to 8 never lower the score: for every input with
\* evidenceStrength >= 0.2, overall >= round(rawScore) capped at 100, and when the
\* condition of a floor rule holds overall is at least that floor (30, 42, 56, 62, 68, 75).
C16_EscalationOnlyRaises ==
    (Scored /\ ~Dampened(calc.features[1])) =>
        /\ calc.result[1].overall >= Min2(RoundDiv(RawScore(calc.result[1]), 100), 100)
        /\ \A floor \in FloorsInForce : calc.result[1].overall * 100 >= floor
        /\ FloorsInForce \subseteq {3000, 4200, 5600, 6200, 6800, 7500}

\* rawScore is 64.5, above the floors 62 and 56 that are in force: overall is 65
C16_Witness ==
    /\ Scored /\ ~Dampened(calc.features[1])
    /\ FloorsInForce = {5600, 6200}
    /\ RawScore(calc.result[1]) = 6450
    /\ calc.result[1].overall = 65

\* C17, as stated: the confidence label follows from the evidence strength and the
\* overall score of the record: 'low' when evidenceStrength < 0.22 or overall < 12,
\* otherwise 'medium' when evidenceStrength < 0.7 or overall < 45, otherwise 'high'.
C17_ConfidenceFromOverall ==
    Scored =>
        calc.result[1].confidence =
            IF Strength(calc.features[1]) < 132000 \/ calc.result[1].overall < 12 THEN "low"
            ELSE IF Strength(calc.features[1]) < 420000 \/ calc.result[1].overall < 45 THEN "medium"
            ELSE "high"

\* C17, amended: the confidence label follows from the evidence strength and rawScore,
\* the sum of the contributions before any escalation rule and before the dampener:
\* 'low' when evidenceStrength < 0.22 or rawScore < 12, otherwise 'medium' when
\* evidenceStrength < 0.7 or rawScore < 45, otherwise 'high'.
C17_ConfidenceFromRawScore ==
    Scored =>
        calc.result[1].confidence =
            IF Strength(calc.features[1]) < 132000 \/ RawScore(calc.result[1]) < 1200 THEN "low"
            ELSE IF Strength(calc.features[1]) < 420000 \/ RawScore(calc.result[1]) < 4500 THEN "medium"
            ELSE "high"

\* rawScore 7.5 with two strong signals: overall is 20, evidenceStrength 0.33, and the
\* label is 'low'
C17_Witness ==
    /\ Scored
    /\ RawScore(calc.result[1]) = 750 /\ calc.result[1].overall = 20
    /\ Strength(calc.features[1]) = 198000
    /\ calc.result[1].confidence = "low"

\* C18: for every input, feature values below 0 or above 1 and any indicator counts
\* included, overall is an integer in 0..100, the six weights sum to 1.0, every
\* contribution lies between 0 and weight*100, rawScore lies in 0..100 and
\* evidenceStrength in [0,1].
C18_Ranges ==
    /\ SumSeq([i \in 1..6 |-> weights[Features[i]]]) = 100
    /\ Scored =>
        /\ calc.result[1].overall \in 0..100
        /\ \A i \in 1..6 :
              /\ calc.result[1].contributions[i].feature = Features[i]
              /\ calc.result[1].contributions[i].contribution >= 0
              /\ calc.result[1].contributions[i].contribution <= weights[Features[i]] * 100
        /\ RawScore(calc.result[1]) >= 0 /\ RawScore(calc.result[1]) <= 10000
        /\ Strength(calc.features[1]) >= 0 /\ Strength(calc.features[1]) <= EvidenceOne
        /\ calc.result[1].evidenceStrength \in 0..100

\* commitBurstSignal -0.25 contributes 0, structureUniformitySignal 1.25 contributes 10,
\* signalValues [1.5, -0.1] with evidenceSignals 7 give evidenceStrength 1
C18_Witness ==
    /\ Scored
    /\ calc.features[1].commitBurstSignal < 0 /\ calc.result[1].contributions[3].contribution = 0
    /\ calc.features[1].structureUniformitySignal > SignalOne
    /\ calc.result[1].contributions[6].contribution = 1000
    /\ calc.features[1].evidenceSignals = 7 /\ calc.result[1].evidenceStrength = 100
    /\ calc.result[1].overall > 0

NormalizedIn(analysis, feature) ==
    LET i == CHOOSE j \in 1..6 : Features[j] = feature
    IN analysis.diagnostics.scoreContributions[i].normalized

\* C20: the provisional record is scored from commit-derived signals only: the config,
\* comment-pattern, repetition and structure signals are 0, commit-language is aiSignal
\* and commit-burst is max(burstSignal, bulkSignal * 0.8); so the breakdown buckets
\* configs, patterns, structure and repetition are 0, the stage is 'provisional',
\* sampledFiles is 0 and cache.isCached is false.
C20_ProvisionalFromCommitsOnly ==
    \A r \in Runs :
        HasProvisional(runs[r]) =>
            LET analysis == runs[r].provisional[1]
                commitResult == analyzeCommitMessages(runs[r].commits)
                burst == IF commitResult.burstSignal * 10 >= commitResult.bulkSignal * 8
                         THEN commitResult.burstSignal
                         ELSE (commitResult.bulkSignal * 8) \div 10
            IN /\ \A feature \in {"configSignal", "commentPatternSignal", "repetitionSignal",
                                    "structureUniformitySignal"} :
                     /\ NormalizedIn(analysis, feature) = 0
                     /\ analysis.diagnostics.featureValues[feature] = 0
               /\ NormalizedIn(analysis, "commitLanguageSignal") = commitResult.aiSignal
               /\ NormalizedIn(analysis, "commitBurstSignal") = burst
               /\ analysis.scoreBreakdown.configs = 0
               /\ analysis.scoreBreakdown.patterns = 0
               /\ analysis.scoreBreakdown.structure = 0
               /\ analysis.scoreBreakdown.repetition = 0
               /\ analysis.stage = "provisional"
               /\ analysis.diagnostics.sampledFiles = 0
               /\ analysis.cache.isCached = FALSE

\* a history whose bulk signal (0.5) outweighs its burst signal (0.3): commit-burst is
\* 0.4, the commits bucket holds all of the 22 points, the record was the response
C20_Witness ==
    \E r \in Runs :
        /\ HasProvisional(runs[r])
        /\ runs[r].commits = TwoCommits
        /\ NormalizedIn(runs[r].provisional[1], "commitBurstSignal") = 4000
        /\ runs[r].provisional[1].scoreBreakdown.commits = 22
        /\ runs[r].provisional[1].slopScore = 62
        /\ runs[r].got # <<>> /\ runs[r].got[1].payload.data = runs[r].provisional[1]

\* the call that has returned, if it was a call of op
Returned(op) == calc.op = op /\ calc.output # None

\* C21: the three signals are discounted (commit language x0.62, commit burst x0.65,
\* config capped at 0.18) exactly for a repository created before 2020 with at least
\* 150 stars, fewer than 6 matched comment lines, fewer than 10 code-pattern matches
\* and no config file found; otherwise they are passed on as they are, and none of
\* them is ever raised
C21_LegacyAttenuation ==
    Returned("attenuateLegacy") =>
        LET i == calc.input
            o == calc.output[1]
            burst == Max2(i.commitResult.burstSignal, (i.commitResult.bulkSignal * 8) \div 10)
            applies == /\ i.repoInfo.created_at # 0 /\ i.repoInfo.created_at < 2020
                       /\ i.repoInfo.stargazers_count >= 150
                       /\ i.totalMatchedCommentLines < 6
                       /\ i.codePatternTotalMatches < 10
                       /\ i.configResult.files = <<>>
        IN /\ applies => /\ o.commitLanguageSignal = (i.commitResult.aiSignal * 62) \div 100
                          /\ o.commitBurstSignal = (burst * 65) \div 100
                          /\ o.configSignal = Min2(i.configSignalRaw, 1800)
           /\ ~applies => /\ o.commitLanguageSignal = i.commitResult.aiSignal
                           /\ o.commitBurstSignal = burst
                           /\ o.configSignal = i.configSignalRaw
           /\ o.commitLanguageSignal <= i.commitResult.aiSignal
           /\ o.commitBurstSignal <= burst
           /\ o.configSignal <= i.configSignalRaw

\* an old, popular repository with few matches has all three signals lowered
C21_Witness ==
    /\ Returned("attenuateLegacy")
    /\ calc.input.repoInfo.created_at = 2019 /\ calc.input.repoInfo.stargazers_count = 150
    /\ calc.input.totalMatchedCommentLines = 5 /\ calc.input.codePatternTotalMatches = 9
    /\ calc.output[1].commitLanguageSignal < calc.input.commitResult.aiSignal
    /\ calc.output[1].commitBurstSignal < BurstOf(calc.input.commitResult)
    /\ calc.output[1].configSignal = 1800 /\ calc.input.configSignalRaw = 9000

InUnit(signal) == 0 <= signal /\ signal <= SignalOne

RatioInUnit ==
    Returned("ratio") => /\ InUnit(calc.output[1])
                         /\ calc.input.denominator <= 0 => calc.output[1] = 0

BoundedScaleInUnit ==
    Returned("boundedScale") => /\ InUnit(calc.output[1])
                                /\ calc.input.max <= calc.input.min => calc.output[1] = 0

\* C22: ratio and boundedScale return a value in [0,1] for all numbers; ratio returns 0
\* for a denominator of 0 or less, boundedScale returns 0 for a range whose upper end is
\* not above its lower end
C22_UnitInterval == RatioInUnit /\ BoundedScaleInUnit

\* ratio(3, 2) has returned 1.5
C22_FailingInput ==
    /\ Returned("ratio")
    /\ calc.input = [numerator |-> 3, denominator |-> 2]
    /\ calc.output[1] = 15000

\* C23: similarityCoefficient is |A n B| / |A u B|, 0 for two empty sets, 1 for a
\* non-empty set and itself, within [0,1], and the same for (A, B) and (B, A)
C23_Jaccard ==
    Returned("similarityCoefficient") =>
        LET a == calc.input.a
            b == calc.input.b
            out == calc.output[1]
        IN /\ (a = {} /\ b = {}) => out = 0
           /\ (a \cup b # {}) => out = (Cardinality(a \cap b) * SignalOne) \div Cardinality(a \cup b)
           /\ (a = b /\ a # {}) => out = SignalOne
           /\ InUnit(out)
           /\ out = similarityCoefficient(b, a)

\* two sets that overlap in part, neither within the other: one token of three in common
C23_Witness ==
    /\ Returned("similarityCoefficient")
    /\ calc.input.a = {"export", "function"} /\ calc.input.b = {"function", "return"}
    /\ calc.output[1] = 3333

\* a node whose name is an entry of the config list or whose path ends with one
IsConfigNode(f) == \E c \in CONFIG_FILES : <<f.name>> = c \/ EndsWith(f.path, c)

RECURSIVE ConfigPaths(_)
ConfigPaths(files) ==
    IF files = <<>> THEN <<>>
    ELSE (IF IsConfigNode(Head(files)) THEN <<Head(files).path>> ELSE <<>>) \o ConfigPaths(Tail(files))

\* C24: detectConfigFiles lists the paths of exactly the config nodes, in input order;
\* found says whether there is one; severity is low for none, medium for one, high for
\* two or more
C24_ConfigDetector ==
    Returned("detectConfigFiles") =>
        LET files == calc.input
            out == calc.output[1]
            count == Cardinality({i \in 1..Len(files) : IsConfigNode(files[i])})
        IN /\ out.files = ConfigPaths(files)
           /\ out.found <=> count >= 1
           /\ out.severity = (CASE count = 0 -> "low" [] count = 1 -> "medium" [] OTHER -> "high")

\* a plain file, a config file by the end of its name and one by the end of its path
C24_Witness ==
    /\ Returned("detectConfigFiles")
    /\ calc.input = << FileNode(<< <<"README", "md">> >>, "file"),
                       FileNode(<< <<".cursorrules", "", "my">> >>, "file"),
                       FileNode(<< <<"docs", "">>, <<"CLAUDE", "md">> >>, "file") >>
    /\ calc.output[1] = [found |-> TRUE, severity |-> "high",
                         files |-> << << <<".cursorrules", "", "my">> >>,
                                      << <<"docs", "">>, <<"CLAUDE", "md">> >> >>]

\* the shapes of at least 2 file names that at least 3 directories of the tree have
RepeatingShapes(shapeCount) == {sh \in Shapes : Cardinality(sh) >= 2 /\ shapeCount[sh] >= 3}

UniformScaffolds(out) == SelectSeq(out.indicators, LAMBDA ind : ind.type = "Uniform Module Scaffolds")

\* what the claim says of a tree and the result for it
StructureAsClaimed(shapeCount, out) ==
    LET expected == Cardinality(RepeatingShapes(shapeCount))
    IN /\ out.repeatedShapes = expected
       /\ Len(UniformScaffolds(out)) = (IF expected >= 1 THEN 1 ELSE 0)
       /\ \A i \in 1..Len(UniformScaffolds(out)) :
              UniformScaffolds(out)[i].severity = (IF expected >= 3 THEN "high" ELSE "medium")
       /\ InUnit(out.uniformitySignal)
       /\ (shapeCount = [sh \in Shapes |-> IF sh = {<<"index", "ts">>, <<"types", "ts">>} THEN 4 ELSE 0])
              => out.repeatedShapes = 1

\* C25: repeatedShapes is the number of shapes of at least 2 file names met in at least
\* 3 directories; a Uniform Module Scaffolds indicator is there iff it is 1 or more, high
\* iff it is 3 or more, medium otherwise; uniformitySignal is in [0,1]; 4 directories of
\* index.ts and types.ts give 1
C25_RepeatedShapes ==
    Returned("detectBoilerplateStructure") => StructureAsClaimed(calc.input.shapeCount, calc.output[1])

\* the same for the trees in which no file name has a "|"
C25_WithoutBars ==
    (Returned("detectBoilerplateStructure")
        /\ \A sh \in Shapes : calc.input.shapeCount[sh] > 0 => \A name \in sh : BarsIn(name) = 0)
    => StructureAsClaimed(calc.input.shapeCount, calc.output[1])

\* 3 directories that hold the one file a|b.ts: one repeated shape is reported
C25_FailingInput ==
    /\ Returned("detectBoilerplateStructure")
    /\ calc.input.shapeCount = [sh \in Shapes |-> IF sh = {<<"a|b", "ts">>} THEN 3 ELSE 0]
    /\ calc.output[1].repeatedShapes = 1
    /\ Len(UniformScaffolds(calc.output[1])) = 1

\* the tree of 4 directories that hold index.ts and types.ts: one repeated shape, medium
C25_Scenario ==
    /\ Returned("detectBoilerplateStructure")
    /\ calc.input.shapeCount[{<<"index", "ts">>, <<"types", "ts">>}] = 4
    /\ calc.output[1].repeatedShapes = 1
    /\ UniformScaffolds(calc.output[1])[1].severity = "medium"

Jaccard(a, b) == IF a \cup b = {} THEN 0 ELSE (Cardinality(a \cap b) * SignalOne) \div Cardinality(a \cup b)

\* the similarities of all pairs i < j, added up
PairSum(samples) ==
    SumSeq([i \in 1..Len(samples) |->
               SumSeq([j \in 1..Len(samples) |->
                          IF i < j THEN Jaccard(samples[i].content.tokens, samples[j].content.tokens) ELSE 0])])

Identical(samples) == \A i \in 1..Len(samples) : samples[i].content = samples[1].content

CrossFile(out) == SelectSeq(out.indicators, LAMBDA ind : ind.type = "High Cross-file Similarity")

\* what holds of every call: nothing for fewer than 2 samples, the average over all
\* pairs, and the thresholds of the indicator
RepetitionRules(samples, out) ==
    LET n == Len(samples)
    IN /\ n < 2 => out = [repetitionSignal |-> 0, averageSimilarity |-> 0, indicators |-> <<>>]
       /\ n >= 2 => out.averageSimilarity = PairSum(samples) \div ((n * (n - 1)) \div 2)
       /\ Len(out.indicators) = Len(CrossFile(out))
       /\ Len(CrossFile(out)) = (IF out.averageSimilarity >= 2400 THEN 1 ELSE 0)
       /\ \A i \in 1..Len(CrossFile(out)) :
              CrossFile(out)[i].severity = (IF out.averageSimilarity >= 3600 THEN "high" ELSE "medium")

Saturated(out) ==
    /\ out.averageSimilarity = SignalOne
    /\ out.repetitionSignal = SignalOne
    /\ Len(CrossFile(out)) = 1 /\ CrossFile(out)[1].severity = "high"

\* C26 as stated: the rules above, and 2 or more samples that are identical after
\* normalisation give averageSimilarity 1, repetitionSignal 1 and a high indicator
C26_IdenticalSaturates ==
    Returned("detectRepetition") =>
        /\ RepetitionRules(calc.input, calc.output[1])
        /\ (Len(calc.input) >= 2 /\ Identical(calc.input)) => Saturated(calc.output[1])

\* C26, amended: the rules above, and 2 or more samples that are identical after
\* normalisation and have at least one token give averageSimilarity 1,
\* repetitionSignal 1 and a high indicator
C26_IdenticalWithTokensSaturates ==
    Returned("detectRepetition") =>
        /\ RepetitionRules(calc.input, calc.output[1])
        /\ (Len(calc.input) >= 2 /\ Identical(calc.input) /\ calc.input[1].content.tokens # {})
              => Saturated(calc.output[1])

\* three samples of the same tokens: 3 pairs of similarity 1
C26_Witness ==
    /\ Returned("detectRepetition")
    /\ Len(calc.input) = 3 /\ Identical(calc.input) /\ calc.input[1].content.tokens = Tokens
    /\ Saturated(calc.output[1])

IsPrefix(s, t) == Len(s) <= Len(t) /\ SubSeq(t, 1, Len(s)) = s

\* C27: a list of at most cap files is returned as it is; of a longer one at most cap
\* files are returned, all of them from the list, no path twice, at most ceil(0.45 cap)
\* of them from the priority loop and at most ceil(0.6 cap) from the two loops before
\* the strided one; a later call with the same list returns the same selection
C27_BoundedSelection ==
    /\ Returned("pickSampleFiles") =>
          LET files == calc.input.files
              cap == calc.input.maxFiles
              out == calc.output[1]
              phases == samplePhases(files, cap)
          IN /\ Len(files) <= cap => out = files
             /\ Len(files) > cap =>
                   /\ Len(out) <= cap
                   /\ \A i \in 1..Len(out) : \E j \in 1..Len(files) : out[i] = files[j]
                   /\ \A i, j \in 1..Len(out) : out[i].path = out[j].path => i = j
                   /\ IsPrefix(phases.afterPriority, phases.afterRoot) /\ IsPrefix(phases.afterRoot, out)
                   /\ Len(phases.afterPriority) * 100 < cap * 45 + 100
                   /\ Len(phases.afterRoot) * 100 < cap * 60 + 100
                   /\ \A i \in (Len(phases.afterRoot) + 1)..Len(out) :
                          ~HasPriorityText(out[i].path) /\ ~IsRootPath(out[i].path)
    /\ (Returned("pickSampleFiles") /\ calc.again # None) => calc.again = calc.output

\* 30 files, every tenth at the root and the others in templates/: 13 files
\* come from the priority loop, 3 more from the root loop and none from the strided one,
\* and a second call has returned the same 16
C27_Witness ==
    /\ Returned("pickSampleFiles") /\ calc.again # None
    /\ calc.input.maxFiles = MAX_SAMPLED_FILES /\ Len(calc.input.files) = MAX_SAMPLED_FILES + 2
    /\ Len(samplePhases(calc.input.files, calc.input.maxFiles).afterPriority) = 13
    /\ Len(calc.output[1]) = 16
    /\ \E i \in 1..16 : IsRootPath(calc.output[1][i].path) /\ i > 13

PairOf(indicator) == <<indicator.type, indicator.description>>

\* where in a list an indicator of the same type and description comes first
FirstAt(list, indicator) ==
    CHOOSE m \in 1..Len(list) :
        /\ PairOf(list[m]) = PairOf(indicator)
        /\ \A k \in 1..(m - 1) : PairOf(list[k]) # PairOf(indicator)

\* out holds the first occurrence of every pair of collected, once, in the order of collected
FirstOccurrencesOf(collected, out) ==
    /\ \A i, j \in 1..Len(out) : PairOf(out[i]) = PairOf(out[j]) => i = j
    /\ {PairOf(out[i]) : i \in 1..Len(out)} = {PairOf(collected[i]) : i \in 1..Len(collected)}
    /\ \A i \in 1..Len(out) : out[i] = collected[FirstAt(collected, out[i])]
    /\ \A i, j \in 1..Len(out) : i < j => FirstAt(collected, out[i]) < FirstAt(collected, out[j])

\* the final-stage records a run has built: the full one and the published ones
FinalRecords(u) ==
    (IF u.final = None THEN {} ELSE {u.final[1]})
    \cup {u.pubs[i] : i \in {j \in 1..Len(u.pubs) : u.pubs[j].stage = "final"}}

\* C28: the indicators of every final-stage record, full or degraded, are the first
\* occurrences of the (type, description) pairs of the indicators collected, each once
\* and in the order collected; the combinator is given the counts of that list
C28_IndicatorsDeduplicated ==
    \A r \in Runs :
        LET u == runs[r]
        IN /\ \A rec \in FinalRecords(u) :
                  /\ \A i, j \in 1..Len(rec.indicators) :
                         PairOf(rec.indicators[i]) = PairOf(rec.indicators[j]) => i = j
                  /\ IsDegraded(rec) =>
                         FirstOccurrencesOf(Append(u.provisional[1].indicators, DeepAnalysisIncomplete),
                                            rec.indicators)
           /\ u.final # None =>
                  LET deep == deepFeatures(u)
                  IN /\ FirstOccurrencesOf(deep.collected, u.final[1].indicators)
                     /\ deep.features.indicatorCount = Len(u.final[1].indicators)
                     /\ deep.features.mediumHighIndicatorCount =
                            Cardinality({i \in 1..Len(u.final[1].indicators) :
                                            u.final[1].indicators[i].severity # "low"})

\* a full final record was published whose collected indicators held one pair twice and
\* two indicators of one type with different descriptions
C28_Witness ==
    \E r \in Runs :
        LET u == runs[r]
        IN /\ u.final # None /\ u.pubs = <<u.final[1]>>
           /\ Len(deepFeatures(u).collected) > Len(u.final[1].indicators)
           /\ \E i, j \in 1..Len(u.final[1].indicators) :
                  /\ i # j
                  /\ u.final[1].indicators[i].type = u.final[1].indicators[j].type

\* a run that missed the cache and whose deep pass was completed without a failure
CompletedDeepPass(u) == u.pc = "done" /\ u.provisional # None /\ u.failedAt = "none"

\* two runs with the same cache key have both completed their deep pass
BothCompleted(r1, r2) ==
    /\ r1 # r2
    /\ CompletedDeepPass(runs[r1]) /\ CompletedDeepPass(runs[r2])
    /\ runs[r1].cacheKey = runs[r2].cacheKey

\* the runs that have written their full final record under a key
WritersOf(cacheKey) ==
    {r \in Runs : /\ runs[r].cacheKey = cacheKey /\ runs[r].final # None
                  /\ runs[r].pc # "cacheSet" /\ runs[r].failedAt # "cacheWrite"}

\* run r writes the cache in this step
WritesCache(r) == runs[r].pc = "cacheSet" /\ runs'[r].pc # "cacheSet" /\ runs'[r].failedAt = "none"

\* C29: two runs of one repository and one latest commit that both missed the cache both
\* write their full final record under the same key and each publishes its own record
\* once; every write replaces the entry whole with the record of the run that writes, so
\* when both have finished the entry is the record of one run that wrote it, the last
\* writer
C29_LastWriteWins ==
    /\ [](\A r1, r2 \in Runs :
             BothCompleted(r1, r2) =>
                 /\ \A r \in {r1, r2} : /\ runs[r].final # None
                                         /\ runs[r].final[1].stage = "final" /\ ~IsDegraded(runs[r].final[1])
                                         /\ runs[r].pubs = <<runs[r].final[1]>>
                 /\ cache[StorageKey(runs[r1].cacheKey[1])] \in {runs[r].final : r \in WritersOf(runs[r1].cacheKey)})
    /\ [][/\ \A r \in Runs : WritesCache(r) =>
                   cache' = [cache EXCEPT ![StorageKey(runs[r].cacheKey[1])] = runs[r].final]
          /\ cache' # cache => \E r \in Runs : WritesCache(r)]_vars

\* both runs missed the cache, their records differ (in the time they were built), and
\* the cache holds the record of the second run, which has overwritten that of the first
C29_Witness ==
    /\ BothCompleted(1, 2)
    /\ runs[1].final # runs[2].final
    /\ runs[1].final[1].timestamp < runs[2].final[1].timestamp
    /\ cache[StorageKey(runs[1].cacheKey[1])] = runs[2].final

\* the file-content fetches of a pool that were made, whether they gave a sample or failed
Attempted(pool) == Cardinality({i \in 1..Len(pool.items) : pool.output[i] # Unset})

\* how many items the workers of a run have taken so far
TakenBy(u) == IF u.pool = None THEN 0 ELSE u.pool[1].index

\* the requests run r makes in this step: repo info, commit history, tree, and one for
\* every item a worker takes
Issued(r) ==
    (IF runs'[r].pc # runs[r].pc /\ runs'[r].pc \in {"repoInfo", "commits", "tree"} THEN 1 ELSE 0)
    + (TakenBy(runs'[r]) - TakenBy(runs[r]))

HoldersOf(pool, i) == {w \in InFlight(pool) : pool.workers[w].cur = i}

\* the result of the mapper for one item: the sample of that item, or null
ResultOf(item) == {Null, Sample(item)}

\* every item below the shared index is with exactly one worker or has its result, and no
\* item above it has been touched
TakenOnce(pool) ==
    /\ pool.index \in 0..Len(pool.items)
    /\ \A i \in 1..Len(pool.items) :
          IF i > pool.index THEN HoldersOf(pool, i) = {} /\ pool.output[i] = Unset
          ELSE IF pool.output[i] = Unset THEN Cardinality(HoldersOf(pool, i)) = 1
          ELSE HoldersOf(pool, i) = {} /\ pool.output[i] \in ResultOf(pool.items[i])

\* Promise.all(workers) has resolved: the run has left the await of mapWithConcurrency
Resolved(u) == u.pool # None /\ u.pc # "pool"

\* one step of a pool: the index moves up by the items taken, a worker takes the item at the
\* index, a result once stored stays
PoolStep(before, after) ==
    /\ after.items = before.items
    /\ after.index >= before.index
    /\ \A w \in 1..Len(before.workers) :
          (after.workers[w].cur # before.workers[w].cur /\ after.workers[w].st # "done") =>
              /\ after.workers[w].cur = before.index + 1
              /\ after.index = before.index + 1
    /\ \A i \in 1..Len(before.items) : before.output[i] # Unset => after.output[i] = before.output[i]

\* C31: mapWithConcurrency hands every item to the mapper exactly once (no index with two
\* workers, none skipped), stores each result at the index of its item in whatever order
\* the fetches settle, resolves only when every mapper call has settled, and its shared
\* index never decreases.
C31_EveryItemOnce ==
    /\ [](\A r \in Runs :
             runs[r].pool # None =>
                /\ TakenOnce(runs[r].pool[1])
                /\ Resolved(runs[r]) =>
                      /\ InFlight(runs[r].pool[1]) = {}
                      /\ \A i \in 1..Len(runs[r].pool[1].items) : runs[r].pool[1].output[i] # Unset)
    /\ [][\A r \in Runs :
             /\ (runs[r].pool = None /\ runs'[r].pool # None) =>
                    /\ runs'[r].pool[1].index = Len(runs'[r].pool[1].workers)
                    /\ \A w \in 1..Len(runs'[r].pool[1].workers) : runs'[r].pool[1].workers[w].cur = w
             /\ runs[r].pool # None =>
                    /\ runs'[r].pool # None
                    /\ PoolStep(runs[r].pool[1], runs'[r].pool[1])]_vars

\* five items: the fetch of the fifth has settled and its sample is at index 5, the fetch of
\* the second has failed, and the first, taken before both, is still in flight
C31_Witness ==
    \E r \in Runs :
        /\ runs[r].pool # None
        /\ Len(runs[r].pool[1].items) = 5
        /\ runs[r].pool[1].output[5] = Sample(runs[r].pool[1].items[5])
        /\ runs[r].pool[1].output[2] = Null
        /\ runs[r].pool[1].output[1] = Unset
        /\ HoldersOf(runs[r].pool[1], 1) # {}

\* the analysis records the storage holds
CachedRecords == {cache[StorageKey(k)][1] : k \in {c \in AllKeys : cache[StorageKey(c)] # None}}

\* a full final record: stage 'final', no 'Deep Analysis Incomplete', built by the deep
\* pass of a run
IsFullRecord(e) ==
    /\ e.stage = "final"
    /\ ~IsDegraded(e)
    /\ ~e.cache.isCached
    /\ \E r \in Runs : runs[r].final = Some(e)

\* the popup's purge removes entries in this step
Purges == popup.clearingCache /\ ~popup'.clearingCache

\* C32: only a complete, non-degraded final record is ever written to the analysis cache,
\* never the provisional or the degraded record; every record returned on a cache hit has
\* stage 'final' and no 'Deep Analysis Incomplete' indicator; a run whose deep pass failed
\* leaves the cache as it is.
C32_OnlyFullRecordsCached ==
    /\ [](/\ \A e \in CachedRecords : IsFullRecord(e)
          /\ \A r \in Runs :
                runs[r].pc = "hit" =>
                    /\ runs[r].response[1].data.stage = "final"
                    /\ ~IsDegraded(runs[r].response[1].data))
    /\ [][/\ (cache' # cache /\ ~Purges) =>
                 \E r \in Runs : /\ WritesCache(r)
                                 /\ runs[r].phase = "try"
                                 /\ cache' = [cache EXCEPT ![StorageKey(runs[r].cacheKey[1])] = runs[r].final]
          /\ \A r \in Runs :
                (runs'[r] # runs[r] /\ runs'[r].phase = "catch") => cache' = cache]_vars

\* the record of the first run has expired; the second run missed, its scoring threw and it
\* published the degraded record: the entry is still the record of the first run
C32_Witness ==
    /\ runs[1].pc = "done" /\ runs[1].phase = "try"
    /\ runs[2].pc = "done" /\ runs[2].phase = "catch" /\ runs[2].failedAt = "scoring"
    /\ runs[2].cacheKey = runs[1].cacheKey
    /\ IsDegraded(runs[2].pubs[1])
    /\ cache[StorageKey(runs[2].cacheKey[1])] = runs[1].final

\* the records a run has handed to a sink or to sendResponse
HandedOut(u) ==
    {u.pubs[i] : i \in 1..Len(u.pubs)}
    \cup {Sent(u)[i].payload : i \in {j \in 1..Len(Sent(u)) : Sent(u)[j].kind = "update"}}

\* C33: the cache write precedes publication and its failure is a failure of the deep
\* pass: a full record that is published has been stored before; when cacheAnalysisByKey
\* throws, the full record that was computed is never published and the degraded record
\* (confidence 'low', 'Deep Analysis Incomplete') is published in its place, exactly once.
C33_CacheWriteFailureDegrades ==
    /\ [](\A r \in Runs :
             LET u == runs[r]
             IN /\ (u.pubs # <<>> /\ u.phase = "try") =>
                       /\ u.pubs = <<u.final[1]>>
                       /\ cache[StorageKey(u.cacheKey[1])] = u.final
                /\ u.failedAt = "cacheWrite" =>
                       /\ u.final # None /\ ~IsDegraded(u.final[1])
                       /\ u.phase = "catch"
                       /\ u.final[1] \notin HandedOut(u)
                       /\ u.pubs = <<failedAnalysis(u.provisional[1])>>
                       /\ u.pubs[1].confidence = "low" /\ IsDegraded(u.pubs[1]) /\ u.pubs[1].stage = "final"
                       /\ cache[StorageKey(u.cacheKey[1])] = None)
    /\ [][\A r \in Runs :
             (runs[r].pc = "cacheSet" /\ runs'[r].pc # "cacheSet") =>
                 \/ /\ cache' = [cache EXCEPT ![StorageKey(runs[r].cacheKey[1])] = runs[r].final]
                    /\ runs'[r].failedAt = "none"
                    /\ runs'[r].pubs = <<runs[r].final[1]>>
                 \/ /\ cache' = cache
                    /\ runs'[r].failedAt = "cacheWrite"
                    /\ runs'[r].pubs = <<failedAnalysis(runs[r].provisional[1])>>]_vars

\* a full record with findings of the deep pass was computed, its cache write threw, and
\* the requester has handled the degraded record as the one update of the run
C33_Witness ==
    \E r \in Runs :
        /\ runs[r].failedAt = "cacheWrite" /\ runs[r].pc = "done"
        /\ runs[r].final[1].indicators # runs[r].provisional[1].indicators
        /\ Len(runs[r].got) = 2
        /\ runs[r].got[2] = Message("update", failedAnalysis(runs[r].provisional[1]))
        /\ runs[r].inbox = <<>>

\* the content script has sent the request of run r and has not handled its settlement
Outstanding(r) ==
    /\ runs[r].tabId # None /\ runs[r].pc # "idle"
    /\ \A i \in 1..Len(runs[r].got) : runs[r].got[i].kind # "response"

\* the calls of analyzeRepo that returned at the isAnalyzing check since the request that
\* was last sent before event i
QueuedBefore(events, i) ==
    {j \in 1..(i - 1) : events[j] = "queued" /\ \A k \in j..(i - 1) : events[k] # "sent"}

\* what the calls of analyzeRepo have done, in order: requests do not overlap, a call is
\* queued only while a request is under way, and a settlement with queued calls is followed
\* at once by one call
OneAtATime(events) ==
    \A i \in 1..Len(events) :
        /\ events[i] = "sent" =>
              \A j \in 1..(i - 1) : events[j] = "sent" => \E k \in j..i : events[k] = "settled"
        /\ events[i] = "queued" =>
              \E j \in 1..(i - 1) : events[j] = "sent" /\ \A k \in j..i : events[k] # "settled"
        /\ (events[i] = "settled" /\ QueuedBefore(events, i) # {}) =>
              i < Len(events) /\ events[i + 1] \in {"sent", "no-repo"}

\* the content script handles the settlement of the request of run r in this step
Settles(r) == Handles(r) /\ Head(runs[r].inbox).kind = "response"

\* the calls of analyzeRepo made in this step, by what they did
CallsMade == SubSeq(page'.events, Len(page.events) + 1, Len(page'.events))

\* C34: the content script has at most one ANALYZE_REPO request outstanding; a call of
\* analyzeRepo while one is in progress sends nothing and only sets the queued flag; and
\* however many calls were made during one analysis, its settlement is followed by exactly
\* one further call.
C34_OneRequestOutstanding ==
    /\ [](/\ Cardinality({r \in Runs : Outstanding(r)}) <= 1
          /\ page.isAnalyzing <=> \E r \in Runs : Outstanding(r)
          /\ OneAtATime(page.events))
    /\ [][/\ (page.isAnalyzing /\ page'.calls < page.calls) =>
                /\ runs' = runs
                /\ page' = [page EXCEPT !.calls = @ - 1, !.queuedAnalyze = TRUE,
                                        !.events = Logged(@, "queued")]
          /\ \A r \in Runs :
                Settles(r) =>
                    /\ ~page'.queuedAnalyze
                    /\ page'.calls = page.calls
                    /\ page.queuedAnalyze => CallsMade \in {<<"settled", "sent">>, <<"settled", "no-repo">>}
                    /\ ~page.queuedAnalyze => CallsMade = <<"settled">>
                    /\ Cardinality({q \in Runs : runs[q].pc = "idle" /\ runs'[q].pc # "idle"})
                           = IF CallsMade = <<"settled", "sent">> THEN 1 ELSE 0]_vars

\* two calls were made while the first request was under way; when it settled one request
\* was sent, which is the one outstanding, and no call is pending
C34_Witness ==
    /\ page.events = <<"sent", "queued", "queued", "settled", "sent">>
    /\ page.calls = 0 /\ ~page.queuedAnalyze
    /\ Outstanding(2) /\ ~Outstanding(1)

\* the runs whose request is received in this step
StartedNow == {q \in Runs : runs[q].pc = "idle" /\ runs'[q].pc # "idle"}

\* C35: when the outstanding request of the content script settles, by a success response,
\* a failure response or a thrown error, isAnalyzing is reset; a call queued meanwhile is
\* made then, for the repository the location shows at that moment, so that isAnalyzing is
\* set again only for the request that call sends; a queued call is never lost and
\* isAnalyzing is never left set without a request outstanding.
C35_QueuedAnalysisStarted ==
    /\ [](/\ page.queuedAnalyze => page.isAnalyzing
          /\ page.isAnalyzing => \E r \in Runs : Outstanding(r))
    /\ [][\A r \in Runs :
             Settles(r) =>
                 LET repo == getCurrentRepo(page.url)
                 IN /\ page.isAnalyzing /\ page'.url = page.url
                    /\ ~Outstanding(r)'
                    /\ IF page.queuedAnalyze /\ repo # None
                       THEN /\ page'.isAnalyzing
                            /\ page'.currentRepoId = repo
                            /\ page'.badge.label = "Analyzing..."
                            /\ \E q \in Runs : /\ StartedNow = {q}
                                               /\ runs'[q].repoId = repo[1]
                                               /\ runs'[q].tabId = runs[r].tabId
                       ELSE /\ ~page'.isAnalyzing
                            /\ StartedNow = {}
                            /\ page.queuedAnalyze => CallsMade = <<"settled", "no-repo">>]_vars

\* the request for octo/alpha was lost with the worker while the tab had moved to
\* octo/beta and a call was queued: handling the error started the analysis of octo/beta
C35_Witness ==
    /\ runs[1].repoId = "octo/alpha"
    /\ runs[1].got = <<Message("response", Undefined)>>
    /\ page.events = <<"sent", "queued", "settled", "sent">>
    /\ page.url = Url("octo/beta", "code")
    /\ runs[2].repoId = "octo/beta" /\ Outstanding(2)
    /\ page.isAnalyzing /\ page.currentRepoId = Some("octo/beta")

\* ------------------------------------------------------------------------ C36
\* what the requester of run r shows: the record in the popup, the score badge of the page
ShownTo(r) ==
    IF runs[r].tabId = None THEN popup.analysis
    ELSE IF page.badge.label = "score" THEN Some(page.badge) ELSE None

\* the requester of run r has handled the final-stage record published by that run
FinalHandled(r) == \E i \in 1..Len(runs[r].got) : runs[r].got[i].kind = "update"

IsProvisionalAnswer(msg) ==
    /\ msg.kind = "response" /\ ~IsUndefined(msg.payload)
    /\ msg.payload.success /\ msg.payload.data.stage = "provisional"

\* this step hands the provisional result of run r to its requester
TakesProvisionalOf(r) ==
    /\ runs[r].inbox # <<>> /\ runs'[r].got = Append(runs[r].got, Head(runs[r].inbox))
    /\ IsProvisionalAnswer(Head(runs[r].inbox))

\* the requester of run r shows a provisional-stage result after this step, and it is not
\* the one that was there before
TurnsProvisional(r) ==
    /\ ShownTo(r)' # None /\ ShownTo(r)'[1].stage = "provisional"
    /\ ShownTo(r)' # ShownTo(r)

RendersAnswerOf(q) ==
    LET data == Head(runs[q].inbox).payload.data
    IN IF runs[q].tabId = None THEN popup.analysis' = Some(data)
       ELSE /\ page.badge'.repoId = data.repoId /\ page.badge'.score = data.slopScore
            /\ page.badge'.stage = data.stage

RawScoreOf(result) == SumSeq([i \in 1..6 |-> result.contributions[i].contribution])

HoldsProvisionalFeatures ==
    /\ calc.features # None
    /\ \A name \in {"configSignal", "commentPatternSignal", "repetitionSignal", "structureUniformitySignal"} :
          calc.features[1][name] = 0

\* C37: the score of a provisional record never has confidence 'high': its features are
\* the two commit signals alone, so the raw score is at most 29 + 12 = 41 points, below the
\* 45 that 'high' asks for, also where the escalation floors raise the score to 56 or more.
C37_ProvisionalNeverHigh ==
    /\ HoldsProvisionalFeatures
    /\ \A result \in {calc.result, calc.again} \ {None} :
          /\ result[1].confidence \in {"low", "medium"}
          /\ RawScoreOf(result[1]) <= (weights.commitLanguageSignal + weights.commitBurstSignal) * 100
          /\ RawScoreOf(result[1]) < 4500

\* both commit signals are at 1 and the evidence strength is 1: the raw score is 41, an
\* escalation floor has raised the score to 62, and the confidence is 'medium'
C37_Witness ==
    /\ HoldsProvisionalFeatures /\ calc.result # None
    /\ calc.features[1].commitLanguageSignal = 10000 /\ calc.features[1].commitBurstSignal = 10000
    /\ RawScoreOf(calc.result[1]) = 4100
    /\ calc.result[1].evidenceStrength = 100
    /\ calc.result[1].overall >= 56
    /\ calc.result[1].confidence = "medium"



\* ------------------------------------------------------------------------ C38
\* created before 2020-01-01 and at least 150 stars, read off the repository as served
CreatedBefore2020WithStars(repoInfo) ==
    repoInfo.created_at \in 1..2019 /\ repoInfo.stargazers_count >= 150

\* the signal attenuation was applied in run u: the commit signals scored by the deep pass
\* are not those of the commit analyzer
AttenuationApplied(u) ==
    deepFeatures(u).features.commitLanguageSignal # analyzeCommitMessages(u.commits).aiSignal

EntryOf(r) == cache[StorageKey(runs[r].cacheKey[1])]

\* this step ends the cache check of run r
ChecksCache(r) == runs[r].pc = "cacheGet" /\ runs'[r].pc # "cacheGet"

\* this step serves run r from the cache
ServesFromCache(r) == ChecksCache(r) /\ runs'[r].pc = "hit"

AgeOf(entry) == now - entry[1].timestamp

\* C39: a cache hit leaves the cache unchanged: the entry is not rewritten and its
\* timestamp stays that of the final analysis that built the record (isCached = true is on
\* the returned copy alone, no stored record has it).  An entry changes only by the write
\* of the final record of a deep pass.  So a record is served while less than 3,600,000 ms
\* have passed since it was built, and no longer from then on, hits or no hits.
C39_HitLeavesCacheUnchanged ==
    /\ [](\A key \in AllKeys :
            LET entry == cache[StorageKey(key)]
            IN entry # None =>
                  /\ ~entry[1].cache.isCached
                  /\ \E r \in Runs : runs[r].final = entry /\ entry[1].timestamp <= now)
    /\ [][\A r \in Runs : ServesFromCache(r) =>
            /\ cache' = cache
            /\ EntryOf(r) # None /\ AgeOf(EntryOf(r)) < 3600000
            /\ runs'[r].response[1].data.cache.isCached
            /\ runs'[r].response[1].data.timestamp = EntryOf(r)[1].timestamp]_vars
    /\ [][\A r \in Runs : (ChecksCache(r) /\ EntryOf(r) # None /\ AgeOf(EntryOf(r)) >= 3600000) =>
            ~ServesFromCache(r) /\ cache' = cache]_vars
    /\ [][cache' # cache =>
            \E r \in Runs : /\ runs[r].pc = "cacheSet" /\ ~IsDegraded(runs[r].final[1])
                            /\ cache' = [cache EXCEPT ![StorageKey(runs[r].cacheKey[1])] = runs[r].final]]_vars

\* a request has been served the record that another built at time 0, which is still
\* stored as it was built; it is now 3,600,000 ms old and a third request is about to
\* look it up
C39_Witness ==
    \E a, b, c \in Runs :
        /\ runs[a].final # None /\ runs[a].final[1].timestamp = 0
        /\ runs[b].pc = "hit"
        /\ runs[b].response[1].data.timestamp = 0
        /\ runs[b].response[1].data.cache.isCached
        /\ runs[c].pc = "cacheGet"
        /\ EntryOf(c) = runs[a].final
        /\ ~EntryOf(c)[1].cache.isCached
        /\ now = CACHE_TTL_MS


\* ------------------------------------------------------------------------ C40
\* the stored entries whose key starts with 'ai-slop-meter-cache-'
StoredCacheKeys ==
    {key \in StorageKeys : cache[key] # None /\ startsWith(key, <<"ai-slop-meter-", "cache-">>)}

\* this step is the first half of clearAnalysisCache: the storage is read
ReadsStorage == popup'.purges = popup.purges + 1

\* C40: clearAnalysisCache removes every entry whose key starts with the analysis-cache
\* prefix that was stored when it read the storage, and no other entry: the settings entry
\* with the GitHub token stays as it is.  It returns the number of entries removed, 0 when
\* there is none, in which case it removes nothing.  A request is served from the cache only
\* where an entry is stored, and a removed entry comes back only by the write of the final
\* record of a deep pass: until then every request for it is a cache miss.
C40_ClearRemovesCacheEntriesOnly ==
    /\ [](cache[SETTINGS_KEY] = Some(StoredSettings))
    /\ [][ReadsStorage =>
            /\ cache' = cache
            /\ IF StoredCacheKeys = {}
               THEN popup'.purged = Some(0) /\ ~popup'.clearingCache
               ELSE popup'.clearingCache /\ popup'.listed = Some(StoredCacheKeys)]_vars
    /\ [][Purges =>
            LET listed == popup.listed[1]
            IN /\ SETTINGS_KEY \notin listed
               /\ \A key \in listed : cache[key] # None /\ cache'[key] = None
               /\ \A key \in StorageKeys \ listed : cache'[key] = cache[key]
               /\ popup'.purged = Some(Cardinality({key \in StorageKeys : cache[key] # None /\ cache'[key] = None}))
               /\ popup'.purged[1] >= 1]_vars
    /\ [][\A r \in Runs : (ChecksCache(r) /\ EntryOf(r) = None) => ~ServesFromCache(r)]_vars
    /\ [][\A key \in StorageKeys : (cache[key] = None /\ cache'[key] # None) =>
            \E r \in Runs : /\ runs[r].pc = "cacheSet" /\ key = StorageKey(runs[r].cacheKey[1])
                            /\ cache'[key] = runs[r].final /\ IsFullRecord(runs[r].final[1])]_vars

\* the cache has been cleared of the one record it held, the settings are as they were, and
\* a request for the key of that record is about to look it up and find nothing
C40_Witness ==
    \E a, q \in Runs :
        /\ popup.purged = Some(1) /\ ~popup.clearingCache
        /\ runs[a].pc = "done" /\ runs[a].final # None /\ IsFullRecord(runs[a].final[1])
        /\ runs[q].pc = "cacheGet" /\ runs[q].cacheKey = runs[a].cacheKey
        /\ EntryOf(q) = None
        /\ StoredCacheKeys = {}
        /\ cache[SETTINGS_KEY] = Some(StoredSettings)

============================================================================
